---- MODULE Spec2Model ----
(***************************************************************************)
(* Atracks: metrics aggregation and reputation engine.                     *)
(*                                                                         *)
(* Node.js runs every handler on one event loop: the code between two      *)
(* awaits runs without interruption, and at an await any other pending     *)
(* handler may run.  An action of this model is therefore one run of a     *)
(* handler from one await (or its call) to the next await (or its return). *)
(* An in-flight call is an entry of 'calls'; its field 'pc' names the      *)
(* await it is suspended at.                                               *)
(*                                                                         *)
(* Numbers.  JavaScript numbers that hold fractions are modelled exactly:  *)
(* a quotient is a normalised pair <<numerator, denominator>>, and USD     *)
(* amounts are integers in units of 1/PnlScale USD.  Floating-point        *)
(* rounding error is not modelled.  Timestamps (created_at, last_updated)  *)
(* of agents and metrics are not modelled.                                 *)
(***************************************************************************)
EXTENDS Integers, Sequences, FiniteSets, TLC

VARIABLES
    agentStore,           \* metrics-store.ts agentStore: agent id -> StoredAgent
    rawMetricsStore,      \* metrics-store.ts rawMetricsStore: agent id -> PerformanceMetrics
    encryptedMetricsMap,  \* metrics-store.ts encryptedMetricsMap: agent id -> EncryptedMetrics
    useDatabase,          \* metrics-store.ts useDatabase
    dbAgents,             \* durable rows of table agents: agent id -> row
    dbMetrics,            \* durable rows of table metrics: agent id -> row
    dbTrades,             \* durable rows of table trades: row -> number of copies
    calls,                \* in-flight async calls: activation record -> number of such calls
    response,             \* what the most recently finished call gave its caller
    submitted,            \* history: agent id -> trades logTrade accepted (trade -> count)
    issued,               \* history: agent id -> raw key its registerAgent call returned
    proofsStore,          \* reputation.ts proofsStore: proof id -> ReputationProof
    verifiedReputations,  \* reputation.ts verifiedReputations: agent id -> VerifiedReputation
    prisma,               \* reputation.ts prisma: whether the service has a database client
    dbProofs,             \* durable rows of table proofs: proof id -> row
    dbReputations,        \* durable rows of table reputations: agent id -> row
    proofSeq,             \* number of proof ids generated
    generated,            \* history: proof id -> created_at of the proof generateProof stored
    rateLimitStore,       \* part_011 rateLimitStore: identifier -> RateLimitEntry
    limited,              \* history: identifier -> outcomes of its checkRateLimit calls
    made,                 \* history: client ip -> its requests in the current minute
    now                   \* Date.now(): in units of ProofTtl where proofs are kept, in
                          \* units of half a rate-limit window where calls are limited

(* What MetricsStoreService keeps, and the history of its calls *)
storeVars == <<agentStore, rawMetricsStore, encryptedMetricsMap, useDatabase, dbAgents,
               dbMetrics, dbTrades, submitted, issued>>

(* What ReputationService keeps, and the clock *)
repVars == <<proofsStore, verifiedReputations, prisma, dbProofs, dbReputations,
             proofSeq, generated, now>>

(* What the rate limiter keeps, and the history of its calls *)
limVars == <<rateLimitStore, limited, made>>

vars == <<storeVars, repVars, limVars, calls, response>>

-----------------------------------------------------------------------------
(* Bounds of the model *)

MaxAgents == 2      \* registerAgent calls
MaxTrades == 2      \* logTrade calls / POST /trades requests
MaxInFlight == 2    \* calls suspended at an await at the same time
MaxProofs == 2      \* proofs generated
MaxTime == 2        \* ticks of the clock
MaxClock == 4       \* ticks of the clock where calls are limited
MaxChecks == 4      \* checkRateLimit calls for one identifier
MaxRequests == 52   \* HTTP requests of one client within one minute

(* USD amounts are integers in units of 1/PnlScale USD *)
PnlScale == 1000

(* The trades callers submit: pnl (in 1/PnlScale USD) and execution time.  *)
(* Two different losses, a zero and a win; a loss whose basis points round *)
(* up and one whose basis points round down.                               *)
Trades ==
    { [pnl |-> -50006, ms |-> 120],
      [pnl |-> -25004, ms |-> 85],
      [pnl |-> 0,      ms |-> 95],
      [pnl |-> 150000, ms |-> 110] }

Names == {"Bot1"}
Salts == {1, 2}
UnknownAgentIds == {0}
NoCall == [op |-> "none"]

-----------------------------------------------------------------------------
(* Arithmetic *)

Abs(x) == IF x < 0 THEN -x ELSE x
Max(a, b) == IF a >= b THEN a ELSE b
Min(a, b) == IF a <= b THEN a ELSE b

RECURSIVE GCD(_, _)
GCD(a, b) == IF b = 0 THEN a ELSE GCD(b, a % b)

(* The JavaScript number n/d (d > 0), in lowest terms *)
Frac(n, d) ==
    LET g == GCD(Abs(n), d)
    IN  IF g = 0 THEN <<0, 1>> ELSE <<n \div g, d \div g>>

FracLeq(p, q) == p[1] * q[2] <= q[1] * p[2]

(* Math.round of the non-negative number num/den: floor(x + 1/2) *)
MathRound(num, den) == (2 * num + den) \div (2 * den)

-----------------------------------------------------------------------------
(* Credentials: src/utils/security.ts                                      *)

(* A raw key `atk_<uuid>`: n names the uuid *)
RawKey(n) == [kind |-> "atk", n |-> n]
Hashed == [kind |-> "literal", text |-> "[HASHED]"]

KeyCode(key) == IF key.kind = "atk" THEN key.n + 1 ELSE 0

(* bcrypt's digest of a key under a salt: injective in the key *)
Digest(key, salt) == KeyCode(key) * (Cardinality(Salts) + 1) + salt

hashApiKey(apiKey, salt) ==
    [kind |-> "bcrypt", salt |-> salt, digest |-> Digest(apiKey, salt)]

(* Comparisons that accept more than bcrypt.compare does: any key of the  *)
(* right form, and any key some agent was issued                          *)
verifyApiKeyByPrefix(apiKey, hash) == apiKey.kind = "atk" /\ hash.kind = "bcrypt"

verifyApiKeyOfAnyAgent(apiKey, hash) ==
    \E a \in DOMAIN agentStore :
        Digest(apiKey, agentStore[a].api_key_hash.salt) = agentStore[a].api_key_hash.digest

(* verifyApiKey, lines 27-29 *)
verifyApiKey(apiKey, hash) == Digest(apiKey, hash.salt) = hash.digest

-----------------------------------------------------------------------------
(* Metrics: src/services/metrics-store.ts                                  *)

initialMetrics ==
    [ total_trades |-> 0, winning_trades |-> 0, total_pnl_usd |-> 0,
      max_drawdown_bps |-> 0, sharpe_ratio |-> <<0, 1>>,
      avg_execution_time_ms |-> <<0, 1>>, uptime_percentage |-> 100 ]

(* logTrade, line 240 *)
TotalAfter(m, t) == m.total_trades + 1

WinningAfterNet(m, t) == m.winning_trades + (IF t.pnl > 0 THEN 1 ELSE -1)

WinningAfterFlatWins(m, t) == m.winning_trades + (IF t.pnl >= 0 THEN 1 ELSE 0)

(* logTrade, lines 241-243 *)
WinningAfter(m, t) == m.winning_trades + (IF t.pnl > 0 THEN 1 ELSE 0)

(* logTrade, lines 247-249: the mean of n values from the mean of n - 1 *)
RunningMean(avg, n, x) == Frac(avg[1] * (n - 1) + x * avg[2], avg[2] * n)

SharpeProxyOfRate(w, n) == Frac(w, n)

(* logTrade, lines 252-253 *)
SharpeProxy(w, n) == Frac(w * 2, n)

DrawdownOfLastLoss(old, pnl) ==
    IF pnl < 0 THEN MathRound(Abs(pnl * 100), PnlScale) ELSE old

(* logTrade, lines 256-259 *)
Drawdown(old, pnl) ==
    IF pnl < 0 THEN Max(old, MathRound(Abs(pnl * 100), PnlScale)) ELSE old

(* logTrade, lines 239-259: the aggregates after one more trade *)
ApplyTrade(m, t) ==
    LET n == TotalAfter(m, t)
        w == WinningAfter(m, t)
    IN  [ total_trades |-> n,
          winning_trades |-> w,
          total_pnl_usd |-> m.total_pnl_usd + t.pnl,
          avg_execution_time_ms |-> RunningMean(m.avg_execution_time_ms, n, t.ms),
          sharpe_ratio |-> SharpeProxy(w, n),
          max_drawdown_bps |-> Drawdown(m.max_drawdown_bps, t.pnl),
          uptime_percentage |-> m.uptime_percentage ]

-----------------------------------------------------------------------------
(* Maps (JavaScript Map objects and database tables) *)

Put(f, k, v) == [x \in DOMAIN f \cup {k} |-> IF x = k THEN v ELSE f[x]]
Remove(f, k) == [x \in DOMAIN f \ {k} |-> f[x]]
Has(f, k) == k \in DOMAIN f

(* A collection whose members carry no key of their own (table rows,      *)
(* pending calls): member -> number of copies                              *)
Insert(table, row) ==
    IF Has(table, row) THEN [table EXCEPT ![row] = @ + 1] ELSE Put(table, row, 1)
Delete(table, row) ==
    IF table[row] = 1 THEN Remove(table, row) ELSE [table EXCEPT ![row] = @ - 1]

-----------------------------------------------------------------------------
(* The privacy collaborator's FHE capability: src/cap402/client.ts         *)

(* Outcome of one call to the collaborator's FHE capability: a success     *)
(* response, or a failure (error response, timeout, network error), which  *)
(* encryptMetrics and addEncryptedPnL both turn into a thrown Error        *)
FheOutcomes == {"ok", "fail"}

NoData == [kind |-> "empty"]

(* encryptMetrics({0, 0, 0}): a ciphertext of 0 *)
encryptMetrics == [kind |-> "ct", plain |-> 0, folds |-> 0]

(* addEncryptedPnL: the homomorphic sum *)
addEncryptedPnL(ct, pnl) ==
    [kind |-> "ct", plain |-> ct.plain + pnl, folds |-> ct.folds + 1]

-----------------------------------------------------------------------------
(* MetricsStoreService: src/services/metrics-store.ts                      *)

RECURSIVE Count(_, _)
Count(table, S) ==
    IF S = {} THEN 0
    ELSE LET k == CHOOSE x \in S : TRUE IN table[k] + Count(table, S \ {k})

(* Number of rows of a table *)
Size(table) == Count(table, DOMAIN table)

RECURSIVE SumSize(_, _)
SumSize(f, S) ==
    IF S = {} THEN 0
    ELSE LET k == CHOOSE x \in S : TRUE IN Size(f[k]) + SumSize(f, S \ {k})

InFlight == Size(calls)

(* logTrade calls that found their agent, so far *)
TradesLogged == SumSize(submitted, DOMAIN submitted)

(* An agent whose key is derived from its name *)
NewAgentKeyedByName(id, name) ==
    [agent_id |-> id, name |-> name, public_key |-> "undefined",
     api_key |-> RawKey(Cardinality({n \in Names : n = name}))]

(* registerAgent, lines 125-131: the Agent returned to the caller *)
NewAgent(id, name) ==
    [agent_id |-> id, name |-> name, public_key |-> "undefined", api_key |-> RawKey(id)]

(* A stored record that keeps the key the agent was given *)
StoredAgentKeepsRawKey(agent, apiKeyHash) ==
    [ agent_id |-> agent.agent_id, name |-> agent.name, public_key |-> agent.public_key,
      api_key |-> agent.api_key, api_key_hash |-> apiKeyHash ]

(* registerAgent, lines 134-138: the StoredAgent kept in agentStore *)
StoredAgent(agent, apiKeyHash) ==
    [ agent_id |-> agent.agent_id, name |-> agent.name, public_key |-> agent.public_key,
      api_key |-> Hashed, api_key_hash |-> apiKeyHash ]

(* registerAgent, lines 143-151: the rows prisma.agent.create writes *)
AgentRow(agent, apiKeyHash) ==
    [id |-> agent.agent_id, name |-> agent.name, apiKey |-> apiKeyHash,
     publicKey |-> agent.public_key]

MetricsRow(m) ==
    [ totalTrades |-> m.total_trades, winningTrades |-> m.winning_trades,
      totalPnlUsd |-> m.total_pnl_usd, avgExecutionTimeMs |-> m.avg_execution_time_ms,
      sharpeRatio |-> m.sharpe_ratio, maxDrawdownBps |-> m.max_drawdown_bps ]

(* A win rate read from the durable metrics row when there is a database *)
getWinRateFromRow(agentId) ==
    IF ~useDatabase
    THEN IF ~Has(rawMetricsStore, agentId) \/ rawMetricsStore[agentId].total_trades = 0
         THEN <<0, 1>>
         ELSE Frac(rawMetricsStore[agentId].winning_trades * 100,
                   rawMetricsStore[agentId].total_trades)
    ELSE IF ~Has(dbMetrics, agentId) \/ dbMetrics[agentId].totalTrades = 0
         THEN <<0, 1>>
         ELSE Frac(dbMetrics[agentId].winningTrades * 100, dbMetrics[agentId].totalTrades)

(* getWinRate, lines 334-338 *)
getWinRate(agentId) ==
    IF ~Has(rawMetricsStore, agentId) \/ rawMetricsStore[agentId].total_trades = 0
    THEN <<0, 1>>
    ELSE Frac(rawMetricsStore[agentId].winning_trades * 100,
              rawMetricsStore[agentId].total_trades)

(* registerAgent up to its await on the collaborator (lines 117-178).  The *)
(* awaits on bcrypt and on prisma.agent.create precede the first write to  *)
(* the shared maps and concern a fresh id, so no other handler can observe *)
(* them: the run up to encryptMetrics is one step.                         *)
RegisterAgent(name, salt, dbOk, via) ==
    LET id     == Cardinality(DOMAIN agentStore) + 1
        agent  == NewAgent(id, name)
        hash   == hashApiKey(agent.api_key, salt)
    IN  /\ id <= MaxAgents
        /\ InFlight < MaxInFlight
        /\ IF useDatabase /\ dbOk
           THEN /\ dbAgents' = Put(dbAgents, id, AgentRow(agent, hash))
                /\ dbMetrics' = Put(dbMetrics, id, MetricsRow(initialMetrics))
           ELSE UNCHANGED <<dbAgents, dbMetrics>>
        /\ agentStore' = Put(agentStore, id, StoredAgent(agent, hash))
        /\ rawMetricsStore' = Put(rawMetricsStore, id, initialMetrics)
        /\ submitted' = Put(submitted, id, <<>>)
        /\ calls' = Insert(calls,
                        [op |-> "registerAgent", pc |-> "awaitEncrypt", via |-> via,
                         agent |-> id, ret |-> agent])
        /\ UNCHANGED <<encryptedMetricsMap, useDatabase, dbTrades, response, issued>>
        /\ UNCHANGED <<repVars, limVars>>

(* registerAgent from the collaborator's answer to its return (lines 178-198) *)
RegisterEncryptDone(rec, outcome) ==
    /\ Has(calls, rec)
    /\ rec.pc = "awaitEncrypt"
    /\ LET a == rec.agent
       IN  /\ IF outcome = "ok"
              THEN encryptedMetricsMap' =
                       Put(encryptedMetricsMap, a,
                           [agent_id |-> a, encrypted_data |-> encryptMetrics])
              ELSE UNCHANGED encryptedMetricsMap
           /\ issued' = Put(issued, a, rec.ret.api_key)
           /\ response' = [op |-> "registerAgent", via |-> rec.via,
                           status |-> "ok", data |-> rec.ret]
    /\ calls' = Delete(calls, rec)
    /\ UNCHANGED <<agentStore, rawMetricsStore, useDatabase, dbAgents, dbMetrics,
                   dbTrades, submitted>>
    /\ UNCHANGED <<repVars, limVars>>

(* logTrade, line 234: the metrics object the update starts from *)
LoadMetricsFromRow(agentId) ==
    IF Has(dbMetrics, agentId)
    THEN [ initialMetrics EXCEPT
             !.total_trades = dbMetrics[agentId].totalTrades,
             !.winning_trades = dbMetrics[agentId].winningTrades,
             !.total_pnl_usd = dbMetrics[agentId].totalPnlUsd,
             !.avg_execution_time_ms = dbMetrics[agentId].avgExecutionTimeMs,
             !.sharpe_ratio = dbMetrics[agentId].sharpeRatio,
             !.max_drawdown_bps = dbMetrics[agentId].maxDrawdownBps ]
    ELSE rawMetricsStore[agentId]

LoadMetrics(agentId) == rawMetricsStore[agentId]

(* What a finished logTrade gives its caller.  The service returns the     *)
(* metrics object itself, which the caller reads as it is at the return;   *)
(* POST /trades (server.ts 627-636) reports total_trades of that object    *)
(* and getWinRate at that moment, to two decimals.                         *)
LogTradeReturn(rec, m) ==
    IF rec.via = "service"
    THEN [op |-> "logTrade", via |-> "service", status |-> "ok",
          agent |-> rec.agent, trade |-> rec.trade, metrics |-> m]
    ELSE [op |-> "POST /trades", via |-> "http", status |-> 200,
          agent |-> rec.agent, trade |-> rec.trade,
          total_trades |-> m.total_trades,
          win_rate |-> IF m.total_trades = 0 THEN 0
                       ELSE MathRound(m.winning_trades * 100 * 100, m.total_trades)]

(* logTrade, lines 294-314: read the stored handle; with one, ask the      *)
(* collaborator to fold the pnl into it and await; without one, return.    *)
(* 'rest' are the other pending calls, 'rec' is the running one.           *)
FoldSection(rest, rec, m) ==
    IF /\ Has(encryptedMetricsMap, rec.agent)
       /\ encryptedMetricsMap[rec.agent].encrypted_data # NoData
    THEN /\ calls' = Insert(rest, [rec EXCEPT !.pc = "awaitFold",
                                    !.existing = encryptedMetricsMap[rec.agent]])
         /\ response' = response
    ELSE /\ calls' = rest
         /\ response' = LogTradeReturn(rec, m)

(* logTrade, lines 234-266: the synchronous update of the aggregates, then *)
(* the first await (the durable trade row) or the encrypted-handle section *)
LogTradeBegin(rest, agentId, trade, via) ==
    LET m   == ApplyTrade(LoadMetrics(agentId), trade)
        rec == [op |-> "logTrade", pc |-> "awaitDbTrade", via |-> via,
                agent |-> agentId, trade |-> trade, row |-> NoData, existing |-> NoData]
    IN  /\ rawMetricsStore' = [rawMetricsStore EXCEPT ![agentId] = m]
        /\ submitted' = [submitted EXCEPT ![agentId] = Insert(@, trade)]
        /\ IF useDatabase
           THEN calls' = Insert(rest, rec) /\ response' = response
           ELSE FoldSection(rest, rec, m)

(* logTrade called on the service *)
LogTrade(agentId, trade) ==
    /\ InFlight < MaxInFlight
    /\ IF ~Has(rawMetricsStore, agentId)
       THEN /\ response' = [op |-> "logTrade", via |-> "service",
                            status |-> "NotFound", agent |-> agentId]
            /\ UNCHANGED <<rawMetricsStore, submitted, calls>>
       ELSE /\ TradesLogged < MaxTrades
            /\ LogTradeBegin(calls, agentId, trade, "service")
    /\ UNCHANGED <<agentStore, encryptedMetricsMap, useDatabase, dbAgents, dbMetrics,
                   dbTrades, issued>>
    /\ UNCHANGED <<repVars, limVars>>

(* logTrade after prisma.trade.create settled (lines 266-278, 289-291)     *)
LogTradeDbTradeDone(rec, ok) ==
    /\ Has(calls, rec)
    /\ rec.pc = "awaitDbTrade"
    /\ LET m == rawMetricsStore[rec.agent]
       IN  IF ok /\ Has(dbAgents, rec.agent)
           THEN /\ dbTrades' = Insert(dbTrades,
                       [agentId |-> rec.agent, pnlUsd |-> rec.trade.pnl,
                        executionTimeMs |-> rec.trade.ms])
                /\ calls' = Insert(Delete(calls, rec),
                                   [rec EXCEPT !.pc = "awaitDbMetrics",
                                               !.row = MetricsRow(m)])
                /\ response' = response
           ELSE /\ dbTrades' = dbTrades
                /\ FoldSection(Delete(calls, rec), rec, m)
    /\ UNCHANGED <<agentStore, rawMetricsStore, encryptedMetricsMap, useDatabase,
                   dbAgents, dbMetrics, submitted, issued>>
    /\ UNCHANGED <<repVars, limVars>>

(* logTrade after prisma.metrics.update settled (lines 278-292) *)
LogTradeDbMetricsDone(rec, ok) ==
    /\ Has(calls, rec)
    /\ rec.pc = "awaitDbMetrics"
    /\ IF ok /\ Has(dbMetrics, rec.agent)
       THEN dbMetrics' = [dbMetrics EXCEPT ![rec.agent] = rec.row]
       ELSE dbMetrics' = dbMetrics
    /\ FoldSection(Delete(calls, rec), rec, rawMetricsStore[rec.agent])
    /\ UNCHANGED <<agentStore, rawMetricsStore, encryptedMetricsMap, useDatabase,
                   dbAgents, dbTrades, submitted, issued>>
    /\ UNCHANGED <<repVars, limVars>>

(* A logTrade that lets the collaborator's failure reach its caller *)
LogTradeFoldDoneThrows(rec, outcome) ==
    /\ Has(calls, rec)
    /\ rec.pc = "awaitFold"
    /\ IF outcome = "ok"
       THEN /\ encryptedMetricsMap' =
                   Put(encryptedMetricsMap, rec.agent,
                       [rec.existing EXCEPT !.encrypted_data =
                            addEncryptedPnL(@, rec.trade.pnl)])
            /\ response' = LogTradeReturn(rec, rawMetricsStore[rec.agent])
       ELSE /\ encryptedMetricsMap' = encryptedMetricsMap
            /\ response' = [op |-> "logTrade", via |-> rec.via, status |-> "Error",
                            agent |-> rec.agent]
    /\ calls' = Delete(calls, rec)
    /\ UNCHANGED <<agentStore, rawMetricsStore, useDatabase, dbAgents, dbMetrics,
                   dbTrades, submitted, issued>>
    /\ UNCHANGED <<repVars, limVars>>

(* logTrade after addEncryptedPnL settled, to its return (lines 298-314) *)
LogTradeFoldDone(rec, outcome) ==
    /\ Has(calls, rec)
    /\ rec.pc = "awaitFold"
    /\ IF outcome = "ok"
       THEN encryptedMetricsMap' =
                Put(encryptedMetricsMap, rec.agent,
                    [rec.existing EXCEPT !.encrypted_data =
                         addEncryptedPnL(@, rec.trade.pnl)])
       ELSE encryptedMetricsMap' = encryptedMetricsMap
    /\ calls' = Delete(calls, rec)
    /\ response' = LogTradeReturn(rec, rawMetricsStore[rec.agent])
    /\ UNCHANGED <<agentStore, rawMetricsStore, useDatabase, dbAgents, dbMetrics,
                   dbTrades, submitted, issued>>
    /\ UNCHANGED <<repVars, limVars>>

(* getAgent, lines 204-211 *)
GetAgent(agentId) ==
    /\ response' = [op |-> "getAgent", via |-> "service", agent |-> agentId,
                    found |-> Has(agentStore, agentId),
                    result |-> IF Has(agentStore, agentId) THEN agentStore[agentId]
                               ELSE NoData]
    /\ UNCHANGED <<agentStore, rawMetricsStore, encryptedMetricsMap, useDatabase,
                   dbAgents, dbMetrics, dbTrades, calls, submitted, issued>>
    /\ UNCHANGED <<repVars, limVars>>

(* getAllAgents, lines 216-218: the stored agents in insertion order *)
GetAllAgents ==
    /\ response' = [op |-> "getAllAgents", via |-> "service", result |-> agentStore]
    /\ UNCHANGED <<agentStore, rawMetricsStore, encryptedMetricsMap, useDatabase,
                   dbAgents, dbMetrics, dbTrades, calls, submitted, issued>>
    /\ UNCHANGED <<repVars, limVars>>

(* validateApiKey, lines 224-228 *)
validateApiKey(agentId, apiKey) ==
    IF ~Has(agentStore, agentId) \/ agentStore[agentId].api_key_hash = NoData
    THEN FALSE
    ELSE verifyApiKey(apiKey, agentStore[agentId].api_key_hash)

(* validateApiKey called on the service.  The stored hash never changes,   *)
(* so the await on bcrypt is not a point where another handler matters.    *)
ValidateApiKey(agentId, apiKey) ==
    /\ response' = [op |-> "validateApiKey", via |-> "service", agent |-> agentId,
                    candidate |-> apiKey, result |-> validateApiKey(agentId, apiKey)]
    /\ UNCHANGED <<agentStore, rawMetricsStore, encryptedMetricsMap, useDatabase,
                   dbAgents, dbMetrics, dbTrades, calls, submitted, issued>>
    /\ UNCHANGED <<repVars, limVars>>

-----------------------------------------------------------------------------
(* The routes of src/server.ts.  The rate-limit middleware in front of     *)
(* them is not part of these actions.                                      *)

(* POST /trades rejected, lines 604-611 *)
Forbidden(agentId, apiKey) ==
    [op |-> "POST /trades", via |-> "http", status |-> 403,
     agent |-> agentId, candidate |-> apiKey]

(* Trade requests that await bcrypt *)
Validating == {rec \in DOMAIN calls : rec.pc = "awaitValidate"}

(* POST /trades up to its await on validateApiKey (lines 587-603).  For an *)
(* unknown agent validateApiKey answers without awaiting bcrypt and the    *)
(* request is rejected in the same run.                                    *)
PostTrades(agentId, apiKey, trade) ==
    /\ InFlight < MaxInFlight
    /\ TradesLogged + Count(calls, Validating) < MaxTrades
    /\ IF ~Has(agentStore, agentId) \/ agentStore[agentId].api_key_hash = NoData
       THEN /\ response' = Forbidden(agentId, apiKey)
            /\ calls' = calls
       ELSE /\ calls' = Insert(calls,
                    [op |-> "POST /trades", pc |-> "awaitValidate", via |-> "http",
                     agent |-> agentId, key |-> apiKey, trade |-> trade,
                     hash |-> agentStore[agentId].api_key_hash])
            /\ response' = response
    /\ UNCHANGED <<agentStore, rawMetricsStore, encryptedMetricsMap, useDatabase,
                   dbAgents, dbMetrics, dbTrades, submitted, issued>>
    /\ UNCHANGED <<repVars, limVars>>

(* POST /trades after bcrypt answered (lines 603-625): a 403, or logTrade  *)
(* up to its first await; a logTrade that throws gives a 500               *)
PostTradesValidated(rec) ==
    /\ Has(calls, rec)
    /\ rec.pc = "awaitValidate"
    /\ IF ~verifyApiKey(rec.key, rec.hash)
       THEN /\ response' = Forbidden(rec.agent, rec.key)
            /\ calls' = Delete(calls, rec)
            /\ UNCHANGED <<rawMetricsStore, submitted>>
       ELSE IF ~Has(rawMetricsStore, rec.agent)
       THEN /\ response' = [op |-> "POST /trades", via |-> "http", status |-> 500,
                            agent |-> rec.agent, candidate |-> rec.key]
            /\ calls' = Delete(calls, rec)
            /\ UNCHANGED <<rawMetricsStore, submitted>>
       ELSE LogTradeBegin(Delete(calls, rec), rec.agent, rec.trade, "http")
    /\ UNCHANGED <<agentStore, encryptedMetricsMap, useDatabase, dbAgents, dbMetrics,
                   dbTrades, issued>>
    /\ UNCHANGED <<repVars, limVars>>

(* GET /agents/:agent_id, line 506: the agent without its api_key property *)
PublicAgent(agent) == [f \in DOMAIN agent \ {"api_key"} |-> agent[f]]

(* GET /agents/:agent_id, lines 491-513 *)
GetAgentById(agentId) ==
    /\ response' =
           IF Has(agentStore, agentId)
           THEN [op |-> "GET /agents/:agent_id", via |-> "http", status |-> 200,
                 data |-> <<PublicAgent(agentStore[agentId])>>]
           ELSE [op |-> "GET /agents/:agent_id", via |-> "http", status |-> 404,
                 data |-> << >>]
    /\ UNCHANGED <<agentStore, rawMetricsStore, encryptedMetricsMap, useDatabase,
                   dbAgents, dbMetrics, dbTrades, calls, submitted, issued>>
    /\ UNCHANGED <<repVars, limVars>>

(* GET /agents, lines 536-546 *)
GetAgents ==
    /\ response' = [op |-> "GET /agents", via |-> "http", status |-> 200,
                    data |-> [a \in DOMAIN agentStore |-> PublicAgent(agentStore[a])]]
    /\ UNCHANGED <<agentStore, rawMetricsStore, encryptedMetricsMap, useDatabase,
                   dbAgents, dbMetrics, dbTrades, calls, submitted, issued>>
    /\ UNCHANGED <<repVars, limVars>>

-----------------------------------------------------------------------------
(* The privacy collaborator's proof and scoring capabilities:              *)
(* src/cap402/client.ts                                                    *)

FracAdd(p, q) == Frac(p[1] * q[2] + q[1] * p[2], p[2] * q[2])
FracMin(p, q) == IF FracLeq(p, q) THEN p ELSE q

(* Outcome of one invoke of cap.zk.proof.v1 (lines 386-396): a response    *)
(* with a proof that says nothing about the claim, one that says the       *)
(* claim is met, one that says it is not, an error response without        *)
(* outputs, or a thrown timeout or network error                           *)
ZkAnswers == {"ok", "okMet", "okUnmet", "error", "throw"}

(* response.outputs?.proof || '' and response.outputs?.verification_key || '' *)
ProofOf(answer) == IF answer \in {"ok", "okMet", "okUnmet"} THEN "zk_proof" ELSE ""
KeyOf(answer) == IF answer \in {"ok", "okMet", "okUnmet"} THEN "zk_key" ELSE ""

(* response.outputs?.public_outputs?.flag ?? local *)
Coalesce(answer, local) ==
    IF answer = "okMet" THEN TRUE ELSE IF answer = "okUnmet" THEN FALSE ELSE local

(* request.public_inputs.f || d *)
OrDefault(inputs, f, d) == IF f \in DOMAIN inputs /\ inputs[f] # 0 THEN inputs[f] ELSE d

(* The properties of an object literal whose value is not undefined *)
Pick(inputs, fields) == [f \in DOMAIN inputs \cap fields |-> inputs[f]]
Merge(f, g) == [x \in DOMAIN f \cup DOMAIN g |-> IF x \in DOMAIN g THEN g[x] ELSE f[x]]

(* proveWinRate, lines 467-501 *)
proveWinRate(actualWinRate, threshold, answer) ==
    [proof |-> ProofOf(answer), verification_key |-> KeyOf(answer),
     meets_threshold |-> Coalesce(answer, FracLeq(<<threshold, 1>>, actualWinRate))]

(* provePnLThreshold, lines 507-538; amounts in USD / PnlScale *)
provePnLThreshold(actualPnL, minPnL, maxPnL, answer) ==
    [proof |-> ProofOf(answer), verification_key |-> KeyOf(answer),
     pnl_in_range |-> Coalesce(answer, actualPnL >= minPnL * PnlScale
                                           /\ actualPnL <= maxPnL * PnlScale)]

(* proveTradeCount, lines 544-577 *)
proveTradeCount(actualTrades, minTrades, answer) ==
    [proof |-> ProofOf(answer), verification_key |-> KeyOf(answer),
     meets_threshold |-> actualTrades >= minTrades]

(* proveCompositeReputation, lines 583-638 *)
proveCompositeReputation(metrics, thresholds, answer) ==
    LET criteriaResults ==
            [win_rate |-> FracLeq(<<thresholds.min_win_rate, 1>>, metrics.win_rate),
             pnl      |-> metrics.pnl >= thresholds.min_pnl * PnlScale,
             trades   |-> metrics.trades >= thresholds.min_trades,
             sharpe   |-> FracLeq(thresholds.min_sharpe, metrics.sharpe),
             drawdown |-> metrics.drawdown <= thresholds.max_drawdown]
    IN  [proof |-> ProofOf(answer), verification_key |-> KeyOf(answer),
         all_criteria_met |-> \A c \in DOMAIN criteriaResults : criteriaResults[c],
         criteria_results |-> criteriaResults]

(* A score whose execution component is 10 up to 100 ms *)
computeMetricsScoreFastTo100(metrics) ==
    LET tradesScore  == FracMin(Frac(metrics.total_trades * 30, 200), <<30, 1>>)
        winRate      == IF metrics.total_trades > 0
                        THEN Frac(metrics.winning_trades, metrics.total_trades)
                        ELSE <<0, 1>>
        winRateScore == FracMin(Frac(winRate[1] * 40, winRate[2]), <<40, 1>>)
        pnlScore     == FracMin(Frac(Max(metrics.total_pnl_usd, 0) * 20, 10000 * PnlScale),
                                <<20, 1>>)
        execScore    == IF FracLeq(metrics.avg_execution_time_ms, <<100, 1>>) THEN 10
                        ELSE IF FracLeq(metrics.avg_execution_time_ms, <<200, 1>>) THEN 4
                        ELSE 0
        total        == FracAdd(FracAdd(tradesScore, winRateScore),
                                FracAdd(pnlScore, <<execScore, 1>>))
    IN  MathRound(total[1], total[2])

(* computeMetricsScore, lines 355-372 *)
computeMetricsScore(metrics) ==
    LET tradesScore  == FracMin(Frac(metrics.total_trades * 30, 200), <<30, 1>>)
        winRate      == IF metrics.total_trades > 0
                        THEN Frac(metrics.winning_trades, metrics.total_trades)
                        ELSE <<0, 1>>
        winRateScore == FracMin(Frac(winRate[1] * 40, winRate[2]), <<40, 1>>)
        pnlScore     == FracMin(Frac(Max(metrics.total_pnl_usd, 0) * 20, 10000 * PnlScale),
                                <<20, 1>>)
        execScore    == IF FracLeq(metrics.avg_execution_time_ms, <<50, 1>>) THEN 10
                        ELSE IF FracLeq(metrics.avg_execution_time_ms, <<100, 1>>) THEN 7
                        ELSE IF FracLeq(metrics.avg_execution_time_ms, <<200, 1>>) THEN 4
                        ELSE 0
        total        == FracMin(FracAdd(FracAdd(tradesScore, winRateScore),
                                        FracAdd(pnlScore, <<execScore, 1>>)),
                                <<100, 1>>)
    IN  MathRound(total[1], total[2])

(* Outcome of one invoke of cap.mpc.compute.v1: a response with a score    *)
(* (and a tier or none; the score is whatever number the capability sent), *)
(* a success response without a score, an error response, or a thrown      *)
(* network error                                                           *)
MpcAnswers ==
    { [kind |-> "score", reputation_score |-> 97, tier |-> "diamond"],
      [kind |-> "score", reputation_score |-> 55, tier |-> ""],
      [kind |-> "score", reputation_score |-> 150, tier |-> "diamond"],
      [kind |-> "empty"],
      [kind |-> "error"],
      [kind |-> "throw"] }

(* computeVerifiedScore, lines 680-685: the tier of the local score *)
FallbackTier(score) ==
    IF score >= 90 THEN "diamond"
    ELSE IF score >= 80 THEN "platinum"
    ELSE IF score >= 70 THEN "gold"
    ELSE IF score >= 60 THEN "silver"
    ELSE IF score >= 50 THEN "bronze"
    ELSE "unverified"

(* computeVerifiedScore, lines 647-708, given the collaborator's answer    *)
(* (not a throw) and the time the answer arrives                           *)
computeVerifiedScore(agentId, proofs, metrics, answer, at) ==
    IF answer.kind = "score"
    THEN [reputation_score |-> answer.reputation_score,
          tier |-> IF answer.tier = "" THEN "unverified" ELSE answer.tier,
          mpc_attestation |-> [kind |-> "remote", agent |-> agentId, at |-> at],
          mode |-> "live"]
    ELSE LET metricsScore == computeMetricsScore(metrics)
             proofBonus   == Min(proofs * 5, 15)
             score        == Min(metricsScore + proofBonus, 100)
         IN  [reputation_score |-> score,
              tier |-> FallbackTier(score),
              mpc_attestation |-> [kind |-> "local", agent |-> agentId, at |-> at],
              mode |-> IF answer.kind = "empty" THEN "live" ELSE "computed"]

-----------------------------------------------------------------------------
(* ReputationService: src/services/reputation.ts.  One unit of time is the *)
(* life of a proof, 24 hours.                                              *)

(* generateProof, line 241: expires_at - created_at *)
ProofTtl == 1

ProofTypes == {"win_rate", "pnl_threshold", "trade_count", "composite"}

(* The requests callers make: one of each proof type the service knows, a  *)
(* win-rate request with threshold 0, and one of a type the request schema *)
(* admits and the service does not know                                    *)
ProofRequests ==
    { [proof_type |-> "win_rate",      public_inputs |-> [threshold |-> 60]],
      [proof_type |-> "win_rate",      public_inputs |-> [threshold |-> 0]],
      [proof_type |-> "pnl_threshold", public_inputs |-> [min_pnl |-> 100, max_pnl |-> 1000]],
      [proof_type |-> "trade_count",   public_inputs |-> [min_trades |-> 2]],
      [proof_type |-> "composite",     public_inputs |-> [min_trades |-> 1]],
      [proof_type |-> "sharpe_ratio",  public_inputs |-> [threshold |-> 60]] }

(* A lookup that answers fresh metrics for an agent it does not know *)
getMetricsOrInitial(agentId) ==
    IF Has(rawMetricsStore, agentId) THEN rawMetricsStore[agentId] ELSE initialMetrics

(* getMetrics, metrics-store.ts lines 320-322 *)
getMetrics(agentId) ==
    IF Has(rawMetricsStore, agentId) THEN rawMetricsStore[agentId] ELSE NoData

(* generateProof, lines 165-224: what the call hands to the collaborator,  *)
(* read from the metrics before the await                                  *)
ProofArguments(agentId, metrics) ==
    [win_rate |-> getWinRate(agentId), pnl |-> metrics.total_pnl_usd,
     trades |-> metrics.total_trades, sharpe |-> metrics.sharpe_ratio,
     drawdown |-> metrics.max_drawdown_bps]

(* generateProof, lines 165-224: proofResult and publicOutputs for the     *)
(* request, from what the collaborator was handed and what it answered     *)
ProofResult(request, seen, answer) ==
    LET inputs == request.public_inputs
    IN  CASE request.proof_type = "win_rate" ->
                 LET r == proveWinRate(seen.win_rate, OrDefault(inputs, "threshold", 50),
                                       answer)
                 IN  [proof |-> r.proof, verification_key |-> r.verification_key,
                      public_outputs |->
                          Merge(Pick(inputs, {"threshold"}),
                                [meets_threshold |-> r.meets_threshold])]
          [] request.proof_type = "pnl_threshold" ->
                 LET r == provePnLThreshold(seen.pnl, OrDefault(inputs, "min_pnl", 0),
                                            OrDefault(inputs, "max_pnl", 1000000), answer)
                 IN  [proof |-> r.proof, verification_key |-> r.verification_key,
                      public_outputs |->
                          Merge(Pick(inputs, {"min_pnl", "max_pnl"}),
                                [pnl_in_range |-> TRUE])]
          [] request.proof_type = "trade_count" ->
                 LET r == proveTradeCount(seen.trades, OrDefault(inputs, "min_trades", 10),
                                          answer)
                 IN  [proof |-> r.proof, verification_key |-> r.verification_key,
                      public_outputs |->
                          Merge(Pick(inputs, {"min_trades"}),
                                [meets_threshold |-> r.meets_threshold])]
          [] request.proof_type = "composite" ->
                 LET r == proveCompositeReputation(
                              seen,
                              [min_win_rate |-> OrDefault(inputs, "min_win_rate", 50),
                               min_pnl      |-> OrDefault(inputs, "min_pnl", 0),
                               min_trades   |-> OrDefault(inputs, "min_trades", 10),
                               min_sharpe   |-> IF "min_sharpe" \in DOMAIN inputs
                                                    /\ inputs["min_sharpe"] # 0
                                                THEN <<inputs["min_sharpe"], 1>>
                                                ELSE <<1, 2>>,
                               max_drawdown |-> OrDefault(inputs, "max_drawdown", 2000)],
                              answer)
                 IN  [proof |-> r.proof, verification_key |-> r.verification_key,
                      public_outputs |->
                          [all_criteria_met |-> r.all_criteria_met,
                           criteria_results |-> r.criteria_results]]

(* generateProof, lines 233-243; circuit_hash repeats proof_type *)
ReputationProof(id, agentId, request, result, at) ==
    [proof_id |-> id, agent_id |-> agentId, proof_type |-> request.proof_type,
     proof_data |-> result.proof, verification_key |-> result.verification_key,
     public_outputs |-> result.public_outputs,
     created_at |-> at, expires_at |-> at + ProofTtl]

(* generateProof, lines 250-259: the row prisma.proof.create writes *)
ProofRow(proof, request) ==
    [id |-> proof.proof_id, agentId |-> proof.agent_id, proofType |-> proof.proof_type,
     proof |-> proof.proof_data, verificationKey |-> proof.verification_key,
     publicInputs |-> request.public_inputs, publicOutputs |-> proof.public_outputs,
     verified |-> FALSE]

(* What a failed call gives its caller *)
Thrown(op, status, agentId) ==
    [op |-> op, via |-> "service", status |-> status, agent |-> agentId]

(* Calls of generateProof that have not stored their proof yet *)
Proving == {rec \in DOMAIN calls : rec.pc = "awaitProve"}

(* generateProof up to its await on the collaborator (lines 156-224) *)
GenerateProof(agentId, request) ==
    /\ IF getMetrics(agentId) = NoData
       THEN /\ response' = Thrown("generateProof", "NotFound", agentId)
            /\ calls' = calls
       ELSE IF request.proof_type \notin ProofTypes
       THEN /\ response' = Thrown("generateProof", "UnknownProofType", agentId)
            /\ calls' = calls
       ELSE /\ InFlight < MaxInFlight
            /\ proofSeq + Count(calls, Proving) < MaxProofs
            /\ calls' = Insert(calls,
                   [op |-> "generateProof", pc |-> "awaitProve", agent |-> agentId,
                    request |-> request,
                    seen |-> ProofArguments(agentId, getMetrics(agentId))])
            /\ response' = response
    /\ UNCHANGED <<proofsStore, verifiedReputations, prisma, dbProofs, dbReputations,
                   proofSeq, now>>
    /\ UNCHANGED <<storeVars, generated, limVars>>

(* generateProof from the collaborator's answer to its await on            *)
(* prisma.proof.create, or to its return without a database (lines 224-267) *)
GenerateProofProved(rec, answer) ==
    /\ Has(calls, rec)
    /\ rec.pc = "awaitProve"
    /\ IF answer = "throw"
       THEN /\ response' = Thrown("generateProof", "Error", rec.agent)
            /\ calls' = Delete(calls, rec)
            /\ UNCHANGED <<proofsStore, proofSeq, generated>>
       ELSE LET proof == ReputationProof(proofSeq + 1, rec.agent, rec.request,
                                         ProofResult(rec.request, rec.seen, answer), now)
            IN  /\ proofsStore' = Put(proofsStore, proof.proof_id, proof)
                /\ proofSeq' = proofSeq + 1
                /\ generated' = Put(generated, proof.proof_id, proof.created_at)
                /\ IF prisma
                   THEN /\ calls' = Insert(Delete(calls, rec),
                               [op |-> "generateProof", pc |-> "awaitDbProof",
                                agent |-> rec.agent, request |-> rec.request,
                                proof |-> proof])
                        /\ response' = response
                   ELSE /\ calls' = Delete(calls, rec)
                        /\ response' = [op |-> "generateProof", via |-> "service",
                                        status |-> "ok", agent |-> rec.agent,
                                        proof |-> proof]
    /\ UNCHANGED <<verifiedReputations, prisma, dbProofs, dbReputations, now>>
    /\ UNCHANGED <<storeVars, limVars>>

(* generateProof from the database's answer to its return (lines 247-267) *)
GenerateProofSaved(rec, ok) ==
    /\ Has(calls, rec)
    /\ rec.pc = "awaitDbProof"
    /\ dbProofs' = IF ok THEN Put(dbProofs, rec.proof.proof_id, ProofRow(rec.proof, rec.request))
                   ELSE dbProofs
    /\ calls' = Delete(calls, rec)
    /\ response' = [op |-> "generateProof", via |-> "service", status |-> "ok",
                    agent |-> rec.agent, proof |-> rec.proof]
    /\ UNCHANGED <<proofsStore, verifiedReputations, prisma, dbReputations, proofSeq, now>>
    /\ UNCHANGED <<storeVars, generated, limVars>>

(* BADGE_DEFINITIONS, lines 118-149, in the order of the object's keys *)
BadgeOrder ==
    <<"first_trade", "profitable", "consistent", "veteran", "whale", "speed_demon">>

BadgeCriteria(badge, m) ==
    CASE badge = "first_trade" -> m.total_trades >= 1
      [] badge = "profitable"  -> m.total_pnl_usd > 0
      [] badge = "consistent"  -> m.total_trades > 0
                                  /\ 10 * m.winning_trades >= 6 * m.total_trades
      [] badge = "veteran"     -> m.total_trades >= 100
      [] badge = "whale"       -> m.total_pnl_usd >= 10000 * PnlScale
      [] badge = "speed_demon" -> ~FracLeq(<<100, 1>>, m.avg_execution_time_ms)

(* Badges that stay once a single trade was won *)
calculateBadgesOnceWon(m) ==
    SelectSeq(BadgeOrder,
              LAMBDA badge : BadgeCriteria(badge, m)
                             \/ (badge = "consistent" /\ m.winning_trades > 0))

(* calculateBadges, lines 378-393: the ids of the badges earned *)
calculateBadges(m) == SelectSeq(BadgeOrder, LAMBDA badge : BadgeCriteria(badge, m))

(* Every stored proof whose expires_at is ahead, whoever owns it *)
agentProofsOfAll(agentId) ==
    {id \in DOMAIN proofsStore : now < proofsStore[id].expires_at}

(* computeVerifiedReputation, lines 307-309: the proofs handed to the      *)
(* collaborator                                                            *)
agentProofs(agentId) ==
    {id \in DOMAIN proofsStore :
        proofsStore[id].agent_id = agentId /\ now < proofsStore[id].expires_at}

(* computeVerifiedReputation, lines 328-336 *)
VerifiedReputation(agentId, result, badges, at) ==
    [agent_id |-> agentId, reputation_score |-> result.reputation_score,
     tier |-> result.tier, badges |-> badges,
     verification_proof |-> result.mpc_attestation, verified_at |-> at,
     mpc_attestation |-> result.mpc_attestation]

(* computeVerifiedReputation, lines 343-360: the row prisma.reputation.upsert leaves *)
ReputationRow(verified) ==
    [agentId |-> verified.agent_id, score |-> verified.reputation_score,
     tier |-> verified.tier, badges |-> verified.badges,
     mpcAttestation |-> verified.mpc_attestation, verifiedAt |-> verified.verified_at]

(* A map that holds the new reputation and no other *)
SetOnlyReputation(agentId, verified) == [a \in {agentId} |-> verified]

(* computeVerifiedReputation, line 337: verifiedReputations.set *)
SetReputation(agentId, verified) == Put(verifiedReputations, agentId, verified)

(* computeVerifiedReputation up to its await on the collaborator           *)
(* (lines 293-322)                                                         *)
ComputeVerifiedReputation(agentId) ==
    /\ IF ~Has(agentStore, agentId) \/ getMetrics(agentId) = NoData
       THEN /\ response' = Thrown("computeVerifiedReputation", "NotFound", agentId)
            /\ calls' = calls
       ELSE /\ InFlight < MaxInFlight
            /\ calls' = Insert(calls,
                   [op |-> "computeVerifiedReputation", pc |-> "awaitScore",
                    agent |-> agentId,
                    proofs |-> Cardinality(agentProofs(agentId)),
                    metrics |-> [f \in {"total_trades", "winning_trades", "total_pnl_usd",
                                        "avg_execution_time_ms"} |->
                                     getMetrics(agentId)[f]]])
            /\ response' = response
    /\ UNCHANGED <<proofsStore, verifiedReputations, prisma, dbProofs, dbReputations,
                   proofSeq, now>>
    /\ UNCHANGED <<storeVars, generated, limVars>>

(* computeVerifiedReputation from the collaborator's answer to its await   *)
(* on prisma.reputation.upsert, or to its return without a database        *)
(* (lines 312-365); the badges are read from the metrics as they are now   *)
ComputeVerifiedReputationScored(rec, answer) ==
    /\ Has(calls, rec)
    /\ rec.pc = "awaitScore"
    /\ IF answer.kind = "throw"
       THEN /\ response' = Thrown("computeVerifiedReputation", "Error", rec.agent)
            /\ calls' = Delete(calls, rec)
            /\ UNCHANGED verifiedReputations
       ELSE LET result   == computeVerifiedScore(rec.agent, rec.proofs, rec.metrics,
                                                 answer, now)
                verified == VerifiedReputation(rec.agent, result,
                                               calculateBadges(rawMetricsStore[rec.agent]),
                                               now)
            IN  /\ verifiedReputations' = SetReputation(rec.agent, verified)
                /\ IF prisma
                   THEN /\ calls' = Insert(Delete(calls, rec),
                               [op |-> "computeVerifiedReputation",
                                pc |-> "awaitDbReputation", agent |-> rec.agent,
                                verified |-> verified])
                        /\ response' = response
                   ELSE /\ calls' = Delete(calls, rec)
                        /\ response' = [op |-> "computeVerifiedReputation",
                                        via |-> "service", status |-> "ok",
                                        agent |-> rec.agent, verified |-> verified]
    /\ UNCHANGED <<proofsStore, prisma, dbProofs, dbReputations, proofSeq, now>>
    /\ UNCHANGED <<storeVars, generated, limVars>>

(* computeVerifiedReputation from the database's answer to its return      *)
(* (lines 341-365)                                                         *)
ComputeVerifiedReputationSaved(rec, ok) ==
    /\ Has(calls, rec)
    /\ rec.pc = "awaitDbReputation"
    /\ dbReputations' = IF ok THEN Put(dbReputations, rec.agent, ReputationRow(rec.verified))
                        ELSE dbReputations
    /\ calls' = Delete(calls, rec)
    /\ response' = [op |-> "computeVerifiedReputation", via |-> "service",
                    status |-> "ok", agent |-> rec.agent, verified |-> rec.verified]
    /\ UNCHANGED <<proofsStore, verifiedReputations, prisma, dbProofs, proofSeq, now>>
    /\ UNCHANGED <<storeVars, generated, limVars>>

(* Outcome of one invoke of cap.zk.verify.v1: a verdict, an error response *)
(* without a verdict, or a thrown timeout or network error                 *)
VerifyAnswers == {"valid", "invalid", "error", "throw"}

(* verifyReputationProof, part_009 lines 713-746, given the collaborator's *)
(* answer (not a throw)                                                    *)
verifyReputationProof(proof, verificationKey, answer) ==
    IF answer \in {"valid", "invalid"}
    THEN [valid |-> answer = "valid", verification_proof |-> "remote"]
    ELSE [valid |-> proof # "" /\ verificationKey # "", verification_proof |-> "local"]

(* What a verifyProof call that throws gives its caller *)
VerifyThrown(status, proofId, at) ==
    [op |-> "verifyProof", via |-> "service", status |-> status, proof_id |-> proofId,
     at |-> at]

(* verifyProof up to its await on the collaborator (lines 273-287) *)
VerifyProof(proofId) ==
    /\ IF ~Has(proofsStore, proofId)
       THEN /\ response' = VerifyThrown("NotFound", proofId, now)
            /\ calls' = calls
       ELSE IF now > proofsStore[proofId].expires_at
       THEN /\ response' = VerifyThrown("Expired", proofId, now)
            /\ calls' = calls
       ELSE /\ InFlight < MaxInFlight
            /\ calls' = Insert(calls,
                   [op |-> "verifyProof", pc |-> "awaitVerify",
                    agent |-> proofsStore[proofId].agent_id, proof_id |-> proofId,
                    proof_data |-> proofsStore[proofId].proof_data,
                    verification_key |-> proofsStore[proofId].verification_key,
                    public_outputs |-> proofsStore[proofId].public_outputs,
                    at |-> now])
            /\ response' = response
    /\ UNCHANGED <<storeVars, repVars, limVars>>

(* verifyProof from the collaborator's answer to its return (lines 283-287) *)
VerifyProofDone(rec, answer) ==
    /\ Has(calls, rec)
    /\ rec.pc = "awaitVerify"
    /\ calls' = Delete(calls, rec)
    /\ response' =
           IF answer = "throw"
           THEN VerifyThrown("Error", rec.proof_id, rec.at)
           ELSE [op |-> "verifyProof", via |-> "service", status |-> "ok",
                 proof_id |-> rec.proof_id, at |-> rec.at,
                 result |-> verifyReputationProof(rec.proof_data, rec.verification_key,
                                                  answer)]
    /\ UNCHANGED <<storeVars, repVars, limVars>>

(* A sweep that deletes nothing *)
SweepNothing == UNCHANGED vars

(* A sweep that deletes a proof from the instant it expires at *)
SweepAtExpiry ==
    /\ proofsStore' = [id \in {i \in DOMAIN proofsStore : ~(now >= proofsStore[i].expires_at)}
                          |-> proofsStore[id]]
    /\ UNCHANGED <<verifiedReputations, prisma, dbProofs, dbReputations, proofSeq,
                   generated, now>>
    /\ UNCHANGED <<storeVars, limVars, calls, response>>

(* The sweep of expired proofs, lines 80-92 *)
Sweep ==
    /\ proofsStore' = [id \in {i \in DOMAIN proofsStore : ~(now > proofsStore[i].expires_at)}
                          |-> proofsStore[id]]
    /\ UNCHANGED <<verifiedReputations, prisma, dbProofs, dbReputations, proofSeq,
                   generated, now>>
    /\ UNCHANGED <<storeVars, limVars, calls, response>>

(* Time passes *)
Tick ==
    /\ now < MaxTime
    /\ now' = now + 1
    /\ UNCHANGED <<proofsStore, verifiedReputations, prisma, dbProofs, dbReputations,
                   proofSeq, generated>>
    /\ UNCHANGED <<storeVars, limVars, calls, response>>

-----------------------------------------------------------------------------
(* Star ratings, leaderboards and trust certificates:                      *)
(* src/services/reputation.ts, src/server.ts                               *)

(* STAR_THRESHOLDS, lines 101-106 *)
STAR_THRESHOLDS ==
    [three_star |-> [min_score |-> 95, min_trades |-> 1000, min_win_rate |-> 75,
                     min_pnl |-> 10000],
     two_star   |-> [min_score |-> 85, min_trades |-> 500, min_win_rate |-> 68,
                     min_pnl |-> 5000],
     one_star   |-> [min_score |-> 75, min_trades |-> 200, min_win_rate |-> 62,
                     min_pnl |-> 1000],
     verified   |-> [min_score |-> 50, min_trades |-> 25, min_win_rate |-> 50,
                     min_pnl |-> 0]]

(* calculateStarRating, lines 443-519; display and description repeat the  *)
(* rating                                                                  *)
calculateStarRating(agentId) ==
    IF ~Has(verifiedReputations, agentId) \/ getMetrics(agentId) = NoData
    THEN [stars |-> 0, rating |-> "unverified"]
    ELSE LET score  == verifiedReputations[agentId].reputation_score
             trades == getMetrics(agentId).total_trades
             wins   == getMetrics(agentId).winning_trades
             pnl    == getMetrics(agentId).total_pnl_usd
             Meets(band) ==
                 /\ score >= STAR_THRESHOLDS[band].min_score
                 /\ trades >= STAR_THRESHOLDS[band].min_trades
                 /\ (IF trades > 0 THEN 100 * wins ELSE 0)
                        >= STAR_THRESHOLDS[band].min_win_rate * Max(trades, 1)
                 /\ pnl >= STAR_THRESHOLDS[band].min_pnl * PnlScale
         IN  IF Meets("three_star") THEN [stars |-> 3, rating |-> "three_star"]
             ELSE IF Meets("two_star") THEN [stars |-> 2, rating |-> "two_star"]
             ELSE IF Meets("one_star") THEN [stars |-> 1, rating |-> "one_star"]
             ELSE IF /\ score >= STAR_THRESHOLDS["verified"].min_score
                     /\ trades >= STAR_THRESHOLDS["verified"].min_trades
             THEN [stars |-> 0, rating |-> "verified"]
             ELSE [stars |-> 0, rating |-> "unverified"]

(* Array.prototype.sort with a comparator, given as cmp[i][j], the value   *)
(* the comparator returns for the i-th and the j-th element: stable, an    *)
(* element goes before another when the comparator is negative, or zero    *)
(* and it came first                                                       *)
StableSort(seq, cmp) ==
    LET n == Len(seq)
        Precedes(j, i) == cmp[j][i] < 0 \/ (cmp[j][i] = 0 /\ j < i)
        Rank(i) == Cardinality({j \in 1..n : j # i /\ Precedes(j, i)})
    IN  [p \in 1..n |-> seq[CHOOSE i \in 1..n : Rank(i) = p - 1]]

(* verified?.reputation_score || 0, verified?.tier || 'unverified',        *)
(* verified?.badges || [], metrics?.total_trades || 0                      *)
ScoreOrZero(agentId) ==
    IF Has(verifiedReputations, agentId)
    THEN verifiedReputations[agentId].reputation_score
    ELSE 0
TierOrUnverified(agentId) ==
    IF Has(verifiedReputations, agentId) /\ verifiedReputations[agentId].tier # ""
    THEN verifiedReputations[agentId].tier
    ELSE "unverified"
BadgesOrNone(agentId) ==
    IF Has(verifiedReputations, agentId) THEN verifiedReputations[agentId].badges ELSE << >>
TradesOrZero(agentId) ==
    IF getMetrics(agentId) = NoData THEN 0 ELSE getMetrics(agentId).total_trades

(* Math.round(winRate * 10) / 10 in tenths of a percent, lines 547-549 and 593-595 *)
WinRateTenths(agentId) ==
    IF getMetrics(agentId) # NoData /\ getMetrics(agentId).total_trades > 0
    THEN MathRound(1000 * getMetrics(agentId).winning_trades,
                   getMetrics(agentId).total_trades)
    ELSE 0

(* The stored agents in insertion order *)
getAllAgents == [i \in 1..Cardinality(DOMAIN agentStore) |-> agentStore[i]]

(* The entry getLeaderboard makes of an agent, lines 422-434 *)
LeaderboardEntry(agent) ==
    [agent_id |-> agent.agent_id,
     agent_name |-> agent.name,
     reputation_score |-> ScoreOrZero(agent.agent_id),
     tier |-> TierOrUnverified(agent.agent_id),
     badges |-> BadgesOrNone(agent.agent_id),
     total_trades |-> TradesOrZero(agent.agent_id)]

(* The entry getLeaderboardWithStars makes of an agent, lines 587-607 *)
StarredEntry(agent) ==
    [agent_id |-> agent.agent_id,
     agent_name |-> agent.name,
     reputation_score |-> ScoreOrZero(agent.agent_id),
     star_rating |-> calculateStarRating(agent.agent_id).stars,
     rating_display |-> calculateStarRating(agent.agent_id).rating,
     tier |-> TierOrUnverified(agent.agent_id),
     badges |-> BadgesOrNone(agent.agent_id),
     total_trades |-> TradesOrZero(agent.agent_id),
     win_rate |-> WinRateTenths(agent.agent_id)]

(* (a, b) => b.reputation_score - a.reputation_score, line 437 *)
ByScore(entries) ==
    [i \in DOMAIN entries |-> [j \in DOMAIN entries |->
        entries[j].reputation_score - entries[i].reputation_score]]

(* The comparator of lines 610-614: stars first, then score *)
ByStarsThenScore(entries) ==
    [i \in DOMAIN entries |-> [j \in DOMAIN entries |->
        IF entries[j].star_rating # entries[i].star_rating
        THEN entries[j].star_rating - entries[i].star_rating
        ELSE entries[j].reputation_score - entries[i].reputation_score]]

(* A leaderboard that lists every agent *)
getLeaderboardOfAll ==
    LET entries == [i \in DOMAIN getAllAgents |-> LeaderboardEntry(getAllAgents[i])]
    IN  StableSort(entries, ByScore(entries))

(* getLeaderboard, lines 413-438 *)
getLeaderboard ==
    LET entries == SelectSeq([i \in DOMAIN getAllAgents |->
                                 LeaderboardEntry(getAllAgents[i])],
                             LAMBDA entry : entry.reputation_score > 0)
    IN  StableSort(entries, ByScore(entries))

(* getLeaderboardWithStars, lines 575-615 *)
getLeaderboardWithStars ==
    LET entries == SelectSeq([i \in DOMAIN getAllAgents |->
                                 StarredEntry(getAllAgents[i])],
                             LAMBDA entry : entry.reputation_score > 0)
    IN  StableSort(entries, ByStarsThenScore(entries))

(* The certificate hash, lines 551-553: 'atracks_cert_' and the first 32   *)
(* base64 characters of 'agentId:score:stars:now', that is the first 24    *)
(* characters of the 36 of the agent id and nothing else                   *)
CertificateHash(agentId, score, stars, at) == [kind |-> "cert", agent |-> agentId]

(* getTrustCertificate, lines 525-570 *)
getTrustCertificate(agentId) ==
    IF ~Has(agentStore, agentId) THEN NoData
    ELSE [agent_id |-> agentId,
          agent_name |-> agentStore[agentId].name,
          verified |-> Has(verifiedReputations, agentId),
          star_rating |-> calculateStarRating(agentId).stars,
          rating_display |-> calculateStarRating(agentId).rating,
          tier |-> TierOrUnverified(agentId),
          reputation_score |-> ScoreOrZero(agentId),
          total_trades |-> TradesOrZero(agentId),
          win_rate |-> WinRateTenths(agentId),
          verified_at |-> IF Has(verifiedReputations, agentId)
                              /\ verifiedReputations[agentId].verified_at # 0
                          THEN verifiedReputations[agentId].verified_at
                          ELSE -1,
          certificate_hash |-> CertificateHash(agentId, ScoreOrZero(agentId),
                                               calculateStarRating(agentId).stars, now),
          valid_until |-> now + ProofTtl]

(* The synchronous readers leave everything but the response as it is *)
Reads(result) ==
    /\ response' = result
    /\ UNCHANGED <<storeVars, repVars, limVars, calls>>

(* calculateStarRating called on the service *)
CalculateStarRating(agentId) ==
    Reads([op |-> "calculateStarRating", via |-> "service", agent |-> agentId,
           result |-> calculateStarRating(agentId)])

(* getLeaderboard called on the service *)
GetLeaderboard ==
    Reads([op |-> "getLeaderboard", via |-> "service", result |-> getLeaderboard])

(* getLeaderboardWithStars called on the service (GET /leaderboard,        *)
(* server.ts lines 1139-1148)                                              *)
GetLeaderboardWithStars ==
    Reads([op |-> "getLeaderboardWithStars", via |-> "service",
           result |-> getLeaderboardWithStars])

(* GET /trust/:agent_id, server.ts lines 1202-1222 *)
GetTrust(agentId) ==
    Reads(IF getTrustCertificate(agentId) = NoData
          THEN [op |-> "GET /trust", via |-> "http", status |-> 404, agent |-> agentId]
          ELSE [op |-> "GET /trust", via |-> "http", status |-> 200, agent |-> agentId,
                data |-> getTrustCertificate(agentId)])

(* The min_stars of a request: -1 when the body has none *)
MinStars == {-1, 1}

(* POST /trust/verify with a non-empty agent_id and certificate_hash,      *)
(* server.ts lines 1326-1369                                               *)
PostTrustVerify(agentId, certificateHash, minStars) ==
    LET certificate == getTrustCertificate(agentId)
        meetsStarRequirement == minStars = -1 \/ certificate.star_rating >= minStars
    IN  Reads(IF certificate = NoData
              THEN [op |-> "POST /trust/verify", via |-> "http", status |-> 200,
                    agent |-> agentId, certificate_hash |-> certificateHash,
                    min_stars |-> minStars,
                    data |-> [valid |-> FALSE, reason |-> "Agent not found"]]
              ELSE [op |-> "POST /trust/verify", via |-> "http", status |-> 200,
                    agent |-> agentId, certificate_hash |-> certificateHash,
                    min_stars |-> minStars,
                    data |-> [valid |-> certificate.verified /\ meetsStarRequirement,
                              agent_id |-> certificate.agent_id,
                              agent_name |-> certificate.agent_name,
                              star_rating |-> certificate.star_rating,
                              rating_display |-> certificate.rating_display,
                              meets_requirement |-> meetsStarRequirement,
                              required_stars |-> IF minStars = -1 THEN 0 ELSE minStars,
                              verified_at |-> certificate.verified_at]])

-----------------------------------------------------------------------------
(* The rate limiter: src/utils/security.ts                                 *)

(* The identifiers callers are limited by *)
Identifiers == {"ip1", "ip2"}

(* The RateLimitConfig a caller limits an identifier with: one with the    *)
(* default block, one with a block longer than its window                  *)
LimitConfig(identifier) ==
    CASE identifier = "ip1" -> [maxRequests |-> 2, windowMs |-> 2]
      [] identifier = "ip2" -> [maxRequests |-> 1, windowMs |-> 2, blockDurationMs |-> 3]

(* A limiter that counts every identifier under one key *)
checkRateLimitShared(store, identifier, config, at) ==
    LET has   == "any" \in DOMAIN store
        entry == store["any"]
    IN  IF ~has \/ at > entry.resetTime
        THEN [store  |-> Put(store, "any",
                             [count |-> 1, resetTime |-> at + config.windowMs,
                              blocked |-> FALSE, blockUntil |-> 0]),
              result |-> [allowed |-> TRUE, remaining |-> config.maxRequests - 1,
                          resetIn |-> config.windowMs]]
        ELSE IF entry.count >= config.maxRequests
        THEN [store  |-> store,
              result |-> [allowed |-> FALSE, remaining |-> 0,
                          resetIn |-> entry.resetTime - at]]
        ELSE [store  |-> Put(store, "any", [entry EXCEPT !.count = @ + 1]),
              result |-> [allowed |-> TRUE,
                          remaining |-> config.maxRequests - (entry.count + 1),
                          resetIn |-> entry.resetTime - at]]

(* checkRateLimit, part_011 lines 152-201: the store it leaves and the     *)
(* result it returns, for a call at time 'at'                              *)
checkRateLimit(store, identifier, config, at) ==
    LET has   == identifier \in DOMAIN store
        entry == store[identifier]
    IN  IF has /\ entry.blocked /\ at < entry.blockUntil
        THEN [store  |-> store,
              result |-> [allowed |-> FALSE, remaining |-> 0,
                          resetIn |-> entry.blockUntil - at]]
        ELSE IF ~has \/ at > entry.resetTime
        THEN [store  |-> Put(store, identifier,
                             [count |-> 1, resetTime |-> at + config.windowMs,
                              blocked |-> FALSE, blockUntil |-> 0]),
              result |-> [allowed |-> TRUE, remaining |-> config.maxRequests - 1,
                          resetIn |-> config.windowMs]]
        ELSE IF entry.count >= config.maxRequests
        THEN LET until == at + OrDefault(config, "blockDurationMs", config.windowMs)
             IN  [store  |-> Put(store, identifier,
                                 [entry EXCEPT !.blocked = TRUE, !.blockUntil = until]),
                  result |-> [allowed |-> FALSE, remaining |-> 0, resetIn |-> until - at]]
        ELSE [store  |-> Put(store, identifier, [entry EXCEPT !.count = @ + 1]),
              result |-> [allowed |-> TRUE,
                          remaining |-> config.maxRequests - (entry.count + 1),
                          resetIn |-> entry.resetTime - at]]

(* The outcomes recorded for an identifier so far *)
LimitedOf(identifier) == IF Has(limited, identifier) THEN limited[identifier] ELSE << >>

(* One call of checkRateLimit (lines 152-201) *)
CheckRateLimit(identifier, config) ==
    LET r == checkRateLimit(rateLimitStore, identifier, config, now)
    IN  /\ Len(LimitedOf(identifier)) < MaxChecks
        /\ rateLimitStore' = r.store
        /\ limited' = Put(limited, identifier,
                          Append(LimitedOf(identifier),
                                 [at |-> now, allowed |-> r.result.allowed]))
        /\ response' = [op |-> "checkRateLimit", via |-> "service",
                        identifier |-> identifier, result |-> r.result]
        /\ UNCHANGED <<storeVars, repVars, made, calls>>

(* A cleanup that deletes an entry once its window is over *)
CleanRateLimitsByWindow ==
    /\ rateLimitStore' =
           [k \in {i \in DOMAIN rateLimitStore : ~(now > rateLimitStore[i].resetTime)}
               |-> rateLimitStore[k]]
    /\ UNCHANGED <<storeVars, repVars, limited, made, calls, response>>

(* The cleanup of old entries, lines 137-145 *)
CleanRateLimits ==
    /\ rateLimitStore' =
           [k \in {i \in DOMAIN rateLimitStore :
                      ~(now > rateLimitStore[i].resetTime
                        /\ now > rateLimitStore[i].blockUntil)}
               |-> rateLimitStore[k]]
    /\ UNCHANGED <<storeVars, repVars, limited, made, calls, response>>

(* Time passes where calls are limited *)
LimitTick ==
    /\ now < MaxClock
    /\ now' = now + 1
    /\ UNCHANGED <<proofsStore, verifiedReputations, prisma, dbProofs, dbReputations,
                   proofSeq, generated>>
    /\ UNCHANGED <<storeVars, limVars, calls, response>>

(* rateLimit(500, 60000) on every route and rateLimit(100, 60000, 60000)   *)
(* on the write routes, server.ts lines 110 and 113; a minute is two ticks *)
MinuteTicks == 2
GlobalMax == 500
WriteMax == 100
GlobalLimit == [maxRequests |-> GlobalMax, windowMs |-> MinuteTicks]
WriteLimit ==
    [maxRequests |-> WriteMax, windowMs |-> MinuteTicks, blockDurationMs |-> MinuteTicks]

(* The client addresses requests come from *)
ClientIps == {"ip1"}

(* The requests client ip has made in its current minute, before a request *)
(* at the present time: the minute begins with the client's first request  *)
(* after the minute before it is over, and like the limiter's window it    *)
(* includes its last instant                                               *)
MadeBy(ip) ==
    IF Has(made, ip) /\ now <= made[ip].start + MinuteTicks
    THEN made[ip]
    ELSE [start |-> now, total |-> 0, writes |-> 0,
          rejectedAt |-> IF Has(made, ip) THEN made[ip].rejectedAt ELSE -1]

(* One request of client ip through the rate limiting middleware: the      *)
(* limiter of all routes, then for a write route the write limiter, both   *)
(* keyed by the client's address (server.ts lines 85-113)                  *)
Request(ip, write) ==
    LET all      == checkRateLimit(rateLimitStore, ip, GlobalLimit, now)
        writes   == checkRateLimit(all.store, ip, WriteLimit, now)
        rejected == ~all.result.allowed \/ (write /\ ~writes.result.allowed)
        before   == MadeBy(ip)
    IN  /\ before.total < MaxRequests
        /\ rateLimitStore' = IF all.result.allowed /\ write THEN writes.store ELSE all.store
        /\ made' = Put(made, ip,
                       [start |-> before.start, total |-> before.total + 1,
                        writes |-> before.writes + (IF write THEN 1 ELSE 0),
                        rejectedAt |-> IF rejected THEN now ELSE before.rejectedAt])
        /\ response' = [op |-> "request", via |-> "http", ip |-> ip, write |-> write,
                        status |-> IF rejected THEN 429 ELSE 200]
        /\ UNCHANGED <<storeVars, repVars, limited, calls>>

-----------------------------------------------------------------------------
(* Spec: one agent registers and callers log its trades, and trades of   *)
(* an unregistered id, through the service, any number of calls at once   *)

Init ==
    /\ agentStore = << >>
    /\ rawMetricsStore = << >>
    /\ encryptedMetricsMap = << >>
    /\ useDatabase \in BOOLEAN
    /\ dbAgents = << >>
    /\ dbMetrics = << >>
    /\ dbTrades = << >>
    /\ calls = << >>
    /\ response = NoCall
    /\ submitted = << >>
    /\ issued = << >>
    /\ proofsStore = << >>
    /\ verifiedReputations = << >>
    /\ prisma \in {p \in BOOLEAN : useDatabase => p}
    /\ dbProofs = << >>
    /\ dbReputations = << >>
    /\ proofSeq = 0
    /\ generated = << >>
    /\ rateLimitStore = << >>
    /\ limited = << >>
    /\ made = << >>
    /\ now = 0

DbOutcomes == IF useDatabase THEN BOOLEAN ELSE {FALSE}

Next ==
    \/ \E name \in Names, dbOk \in DbOutcomes :
           /\ agentStore = << >>
           /\ RegisterAgent(name, CHOOSE salt \in Salts : TRUE, dbOk, "service")
    \/ \E rec \in DOMAIN calls, outcome \in FheOutcomes : RegisterEncryptDone(rec, outcome)
    \/ \E a \in DOMAIN agentStore \cup UnknownAgentIds, t \in Trades : LogTrade(a, t)
    \/ \E rec \in DOMAIN calls, ok \in BOOLEAN : LogTradeDbTradeDone(rec, ok)
    \/ \E rec \in DOMAIN calls, ok \in BOOLEAN : LogTradeDbMetricsDone(rec, ok)
    \/ \E rec \in DOMAIN calls, outcome \in FheOutcomes : LogTradeFoldDone(rec, outcome)

Spec == Init /\ [][Next]_vars

(* SpecVault: agents register and callers read agents and validate keys    *)
(* on the service                                                          *)
Candidates == {RawKey(n) : n \in 0..MaxAgents} \cup {Hashed}

NextVault ==
    \/ \E name \in Names, salt \in Salts, dbOk \in DbOutcomes :
           RegisterAgent(name, salt, dbOk, "service")
    \/ \E rec \in DOMAIN calls, outcome \in FheOutcomes : RegisterEncryptDone(rec, outcome)
    \/ \E a \in DOMAIN agentStore \cup UnknownAgentIds : GetAgent(a)
    \/ GetAllAgents
    \/ \E a \in DOMAIN agentStore \cup UnknownAgentIds, k \in Candidates :
           ValidateApiKey(a, k)

SpecVault == Init /\ [][NextVault]_vars

(* SpecHttp: the routes of the server, with the durable backend and the    *)
(* collaborator answering every call                                       *)
HttpTrades == {t \in Trades : t.ms = 110 \/ t.ms = 85}

NextHttp ==
    \/ \E name \in Names :
           RegisterAgent(name, CHOOSE salt \in Salts : TRUE, TRUE, "http")
    \/ \E rec \in DOMAIN calls : RegisterEncryptDone(rec, "ok")
    \/ \E a \in DOMAIN agentStore \cup UnknownAgentIds, k \in Candidates, t \in HttpTrades :
           PostTrades(a, k, t)
    \/ \E rec \in DOMAIN calls : PostTradesValidated(rec)
    \/ \E rec \in DOMAIN calls : LogTradeDbTradeDone(rec, TRUE)
    \/ \E rec \in DOMAIN calls : LogTradeDbMetricsDone(rec, TRUE)
    \/ \E rec \in DOMAIN calls : LogTradeFoldDone(rec, "ok")
    \/ \E a \in DOMAIN agentStore \cup UnknownAgentIds : GetAgentById(a)
    \/ GetAgents

SpecHttp == Init /\ [][NextHttp]_vars

(* SpecRep: one agent registers, trades are logged, win-rate proofs are    *)
(* generated and reputations computed, all within the life of a proof.     *)
(* Callers wait for one call to return before making the next; the         *)
(* databases and the FHE capability answer every call, the scoring         *)
(* capability none.                                                        *)
RepRequests ==
    {request \in ProofRequests :
        /\ request.proof_type \in {"win_rate", "sharpe_ratio"}
        /\ request.public_inputs.threshold = 60}

RepZkAnswers == {"ok", "error", "throw"}

RepAnswers == {answer \in MpcAnswers : answer.kind \in {"error", "throw"}}

(* No call is suspended at an await *)
Idle == calls = << >>

NextRep ==
    \/ \E name \in Names :
           /\ agentStore = << >>
           /\ Idle
           /\ RegisterAgent(name, CHOOSE salt \in Salts : TRUE, TRUE, "service")
    \/ \E rec \in DOMAIN calls : RegisterEncryptDone(rec, "ok")
    \/ \E a \in DOMAIN agentStore \cup UnknownAgentIds, t \in HttpTrades :
           Idle /\ LogTrade(a, t)
    \/ \E rec \in DOMAIN calls : LogTradeDbTradeDone(rec, TRUE)
    \/ \E rec \in DOMAIN calls : LogTradeDbMetricsDone(rec, TRUE)
    \/ \E rec \in DOMAIN calls : LogTradeFoldDone(rec, "ok")
    \/ \E a \in DOMAIN agentStore \cup UnknownAgentIds, request \in RepRequests :
           Idle /\ GenerateProof(a, request)
    \/ \E rec \in DOMAIN calls, answer \in RepZkAnswers : GenerateProofProved(rec, answer)
    \/ \E rec \in DOMAIN calls : GenerateProofSaved(rec, TRUE)
    \/ \E a \in DOMAIN agentStore \cup UnknownAgentIds :
           Idle /\ ComputeVerifiedReputation(a)
    \/ \E rec \in DOMAIN calls, answer \in RepAnswers :
           ComputeVerifiedReputationScored(rec, answer)
    \/ \E rec \in DOMAIN calls : ComputeVerifiedReputationSaved(rec, TRUE)

SpecRep == Init /\ [][NextRep]_vars

(* SpecProofs: one agent registers, trades are logged and proofs of every  *)
(* kind are generated, whatever the proof capability answers.  Callers     *)
(* wait for one call to return before making the next; the metrics         *)
(* database and the FHE capability answer every call.                      *)
NextProofs ==
    \/ \E name \in Names :
           /\ agentStore = << >>
           /\ Idle
           /\ RegisterAgent(name, CHOOSE salt \in Salts : TRUE, TRUE, "service")
    \/ \E rec \in DOMAIN calls : RegisterEncryptDone(rec, "ok")
    \/ \E a \in DOMAIN agentStore, t \in HttpTrades :
           Idle /\ LogTrade(a, t)
    \/ \E rec \in DOMAIN calls : LogTradeDbTradeDone(rec, TRUE)
    \/ \E rec \in DOMAIN calls : LogTradeDbMetricsDone(rec, TRUE)
    \/ \E rec \in DOMAIN calls : LogTradeFoldDone(rec, "ok")
    \/ \E a \in DOMAIN agentStore, request \in ProofRequests :
           Idle /\ GenerateProof(a, request)
    \/ \E rec \in DOMAIN calls, answer \in ZkAnswers : GenerateProofProved(rec, answer)
    \/ \E rec \in DOMAIN calls, ok \in BOOLEAN : GenerateProofSaved(rec, ok)

SpecProofs == Init /\ [][NextProofs]_vars

(* SpecExpiry: one agent registers, trades are logged, win-rate proofs are *)
(* generated and verified while time passes and the sweep runs, whatever   *)
(* the proof capability answers.  Callers wait for one call to return      *)
(* before making the next; the databases and the FHE capability answer     *)
(* every call.                                                             *)
ExpiryRequests ==
    {request \in ProofRequests :
        request.proof_type = "win_rate" /\ request.public_inputs.threshold = 60}

NextExpiry ==
    \/ \E name \in Names :
           /\ agentStore = << >>
           /\ Idle
           /\ RegisterAgent(name, CHOOSE salt \in Salts : TRUE, TRUE, "service")
    \/ \E rec \in DOMAIN calls : RegisterEncryptDone(rec, "ok")
    \/ \E a \in DOMAIN agentStore, t \in HttpTrades :
           Idle /\ LogTrade(a, t)
    \/ \E rec \in DOMAIN calls : LogTradeDbTradeDone(rec, TRUE)
    \/ \E rec \in DOMAIN calls : LogTradeDbMetricsDone(rec, TRUE)
    \/ \E rec \in DOMAIN calls : LogTradeFoldDone(rec, "ok")
    \/ \E a \in DOMAIN agentStore, request \in ExpiryRequests :
           Idle /\ GenerateProof(a, request)
    \/ \E rec \in DOMAIN calls, answer \in ZkAnswers : GenerateProofProved(rec, answer)
    \/ \E rec \in DOMAIN calls : GenerateProofSaved(rec, TRUE)
    \/ \E proofId \in 1..MaxProofs : Idle /\ VerifyProof(proofId)
    \/ \E rec \in DOMAIN calls, answer \in VerifyAnswers : VerifyProofDone(rec, answer)
    \/ Sweep
    \/ Tick

SpecExpiry == Init /\ [][NextExpiry]_vars

(* SpecScore: one agent registers, trades are logged, win-rate proofs are  *)
(* generated and the reputation is computed while time passes and the      *)
(* sweep runs, whatever the scoring capability answers.  Callers wait for  *)
(* one call to return before making the next; the databases, the FHE and   *)
(* the proof capability answer every call.                                 *)
NextScore ==
    \/ \E name \in Names :
           /\ agentStore = << >>
           /\ Idle
           /\ RegisterAgent(name, CHOOSE salt \in Salts : TRUE, TRUE, "service")
    \/ \E rec \in DOMAIN calls : RegisterEncryptDone(rec, "ok")
    \/ \E a \in DOMAIN agentStore, t \in HttpTrades :
           Idle /\ LogTrade(a, t)
    \/ \E rec \in DOMAIN calls : LogTradeDbTradeDone(rec, TRUE)
    \/ \E rec \in DOMAIN calls : LogTradeDbMetricsDone(rec, TRUE)
    \/ \E rec \in DOMAIN calls : LogTradeFoldDone(rec, "ok")
    \/ \E a \in DOMAIN agentStore, request \in ExpiryRequests :
           Idle /\ GenerateProof(a, request)
    \/ \E rec \in DOMAIN calls : GenerateProofProved(rec, "ok")
    \/ \E rec \in DOMAIN calls : GenerateProofSaved(rec, TRUE)
    \/ \E a \in DOMAIN agentStore :
           Idle /\ ComputeVerifiedReputation(a)
    \/ \E rec \in DOMAIN calls, answer \in MpcAnswers :
           ComputeVerifiedReputationScored(rec, answer)
    \/ \E rec \in DOMAIN calls : ComputeVerifiedReputationSaved(rec, TRUE)
    \/ Sweep
    \/ Tick

SpecScore == Init /\ [][NextScore]_vars

(* SpecOwn: two agents register, proofs are generated for either and the  *)
(* reputation of either is computed while time passes and the sweep runs.  *)
(* Callers wait for one call to return before making the next; the         *)
(* databases, the FHE and the proof capability answer every call, the      *)
(* scoring capability answers without a score.                             *)
OwnAnswers == {answer \in MpcAnswers : answer.kind \in {"error", "empty"}}

NextOwn ==
    \/ \E name \in Names :
           /\ Idle
           /\ RegisterAgent(name, CHOOSE salt \in Salts : TRUE, TRUE, "service")
    \/ \E rec \in DOMAIN calls : RegisterEncryptDone(rec, "ok")
    \/ \E a \in DOMAIN agentStore, request \in ExpiryRequests :
           Idle /\ GenerateProof(a, request)
    \/ \E rec \in DOMAIN calls : GenerateProofProved(rec, "ok")
    \/ \E rec \in DOMAIN calls : GenerateProofSaved(rec, TRUE)
    \/ \E a \in DOMAIN agentStore :
           Idle /\ ComputeVerifiedReputation(a)
    \/ \E rec \in DOMAIN calls, answer \in OwnAnswers :
           ComputeVerifiedReputationScored(rec, answer)
    \/ \E rec \in DOMAIN calls : ComputeVerifiedReputationSaved(rec, TRUE)
    \/ Sweep
    \/ Tick

SpecOwn == Init /\ [][NextOwn]_vars

(* SpecLimit: callers check the limit of two identifiers, each with its   *)
(* own configuration, while time passes and the cleanup runs               *)
NextLimit ==
    \/ \E identifier \in Identifiers : CheckRateLimit(identifier, LimitConfig(identifier))
    \/ CleanRateLimits
    \/ LimitTick

SpecLimit == Init /\ [][NextLimit]_vars

(* SpecThrottle: one client sends read and write requests through the     *)
(* rate limiting middleware while time passes and the cleanup runs         *)
NextThrottle ==
    \/ \E ip \in ClientIps, write \in BOOLEAN : Request(ip, write)
    \/ CleanRateLimits
    \/ LimitTick

SpecThrottle == Init /\ [][NextThrottle]_vars

(* SpecTrust: the readers of ratings, leaderboards and certificates, on    *)
(* the states a run of registrations, trades and reputation computations    *)
(* leaves.  Every agent was registered while the collaborator was down and  *)
(* without a database, logged one of the histories below, and has no        *)
(* reputation or the one a computation without proofs stored at time 0     *)
(* from one of the collaborator's answers.                                  *)

(* logTrade called with the same trade until the agent has 'total' trades: *)
(* one call after the other, then TradeBlock calls at a time, then         *)
(* TradeBlock blocks at a time                                             *)
TradeBlock == 10

RECURSIVE LogTradesUpTo(_, _, _)
LogTradesUpTo(m, trade, total) ==
    IF m.total_trades >= total THEN m
    ELSE LogTradesUpTo(ApplyTrade(m, trade), trade, total)

LogBlocksUpTo(m, trade, total) ==
    LET blocks == (total - m.total_trades) \div TradeBlock
        after[k \in 0..blocks] ==
            IF k = 0 THEN m
            ELSE LogTradesUpTo(after[k - 1], trade, m.total_trades + k * TradeBlock)
    IN  LogTradesUpTo(after[blocks], trade, total)

AfterTrades(m, trade, n) ==
    LET size   == TradeBlock * TradeBlock
        blocks == n \div size
        after[k \in 0..blocks] ==
            IF k = 0 THEN m
            ELSE LogBlocksUpTo(after[k - 1], trade, m.total_trades + k * size)
    IN  LogBlocksUpTo(after[blocks], trade, m.total_trades + n)

(* Trade histories: none, 25 losses, and 200, 500 and 1000 wins of 12 USD *)
TrustHistories ==
    { [trade |-> [pnl |-> -25004, ms |-> 85],  n |-> 0],
      [trade |-> [pnl |-> -25004, ms |-> 85],  n |-> 25],
      [trade |-> [pnl |-> 12000, ms |-> 110], n |-> 200],
      [trade |-> [pnl |-> 12000, ms |-> 110], n |-> 500],
      [trade |-> [pnl |-> 12000, ms |-> 110], n |-> 1000] }

(* The metrics each history leaves *)
TrustLedgers ==
    { [trade |-> h.trade, n |-> h.n,
       metrics |-> AfterTrades(initialMetrics, h.trade, h.n)] : h \in TrustHistories }

(* The collaborator's answers to the reputation computations, and "none"   *)
(* for an agent whose reputation was never computed                        *)
TrustAnswers ==
    { [kind |-> "none"],
      [kind |-> "score", reputation_score |-> 97, tier |-> "diamond"],
      [kind |-> "score", reputation_score |-> 80, tier |-> "platinum"],
      [kind |-> "score", reputation_score |-> 0, tier |-> ""],
      [kind |-> "error"] }

InitTrust ==
    \E history \in [1..MaxAgents -> TrustLedgers],
       answer \in [1..MaxAgents -> TrustAnswers] :
        LET metrics(a) == history[a].metrics
            computed   == {a \in 1..MaxAgents : answer[a].kind # "none"}
        IN  /\ agentStore = [a \in 1..MaxAgents |->
                   StoredAgent(NewAgent(a, CHOOSE name \in Names : TRUE),
                               hashApiKey(RawKey(a), CHOOSE salt \in Salts : TRUE))]
            /\ rawMetricsStore = [a \in 1..MaxAgents |-> metrics(a)]
            /\ submitted = [a \in 1..MaxAgents |->
                   IF history[a].n = 0 THEN << >>
                   ELSE [t \in {history[a].trade} |-> history[a].n]]
            /\ issued = [a \in 1..MaxAgents |-> RawKey(a)]
            /\ verifiedReputations = [a \in computed |->
                   VerifiedReputation(a,
                       computeVerifiedScore(a, 0, metrics(a), answer[a], 0),
                       calculateBadges(metrics(a)), 0)]
            /\ encryptedMetricsMap = << >>
            /\ useDatabase = FALSE
            /\ prisma = FALSE
            /\ dbAgents = << >>
            /\ dbMetrics = << >>
            /\ dbTrades = << >>
            /\ dbProofs = << >>
            /\ dbReputations = << >>
            /\ proofsStore = << >>
            /\ proofSeq = 0
            /\ generated = << >>
            /\ calls = << >>
            /\ response = NoCall
            /\ rateLimitStore = << >>
            /\ limited = << >>
            /\ made = << >>
            /\ now = 0

(* The certificate hashes callers present: the one of each agent's         *)
(* certificate and one no certificate carries                              *)
PresentedHashes ==
    {CertificateHash(a, 0, 0, 0) : a \in 1..MaxAgents} \cup {[kind |-> "bogus"]}

NextTrust ==
    \/ \E a \in 1..MaxAgents \cup UnknownAgentIds : CalculateStarRating(a)
    \/ GetLeaderboard
    \/ GetLeaderboardWithStars
    \/ \E a \in 1..MaxAgents \cup UnknownAgentIds : GetTrust(a)
    \/ \E a \in 1..MaxAgents \cup UnknownAgentIds, h \in PresentedHashes, m \in MinStars :
           PostTrustVerify(a, h, m)

SpecTrust == InitTrust /\ [][NextTrust]_vars

(* SpecFrame: two agents register, trades are logged, one proof is         *)
(* generated, reputations are computed and callers read ratings,           *)
(* leaderboards and certificates.  Callers wait for one call to return     *)
(* before making the next; the databases, the FHE and the proof capability *)
(* answer every call, the scoring capability answers with a score or       *)
(* without one.                                                            *)
FrameAnswers ==
    {answer \in MpcAnswers :
        answer.kind = "error" \/ (answer.kind = "score" /\ answer.reputation_score = 97)}

NextFrame ==
    \/ \E name \in Names :
           /\ Idle
           /\ RegisterAgent(name, CHOOSE salt \in Salts : TRUE, TRUE, "service")
    \/ \E rec \in DOMAIN calls : RegisterEncryptDone(rec, "ok")
    \/ \E a \in DOMAIN agentStore :
           Idle /\ LogTrade(a, CHOOSE t \in Trades : t.pnl > 0)
    \/ \E rec \in DOMAIN calls : LogTradeDbTradeDone(rec, TRUE)
    \/ \E rec \in DOMAIN calls : LogTradeDbMetricsDone(rec, TRUE)
    \/ \E rec \in DOMAIN calls : LogTradeFoldDone(rec, "ok")
    \/ \E a \in DOMAIN agentStore, request \in ExpiryRequests :
           Idle /\ proofSeq = 0 /\ GenerateProof(a, request)
    \/ \E rec \in DOMAIN calls : GenerateProofProved(rec, "ok")
    \/ \E rec \in DOMAIN calls : GenerateProofSaved(rec, TRUE)
    \/ \E a \in DOMAIN agentStore \cup UnknownAgentIds :
           Idle /\ ComputeVerifiedReputation(a)
    \/ \E rec \in DOMAIN calls, answer \in FrameAnswers :
           ComputeVerifiedReputationScored(rec, answer)
    \/ \E rec \in DOMAIN calls : ComputeVerifiedReputationSaved(rec, TRUE)
    \/ \E a \in DOMAIN agentStore \cup UnknownAgentIds : Idle /\ CalculateStarRating(a)
    \/ Idle /\ GetLeaderboard
    \/ Idle /\ GetLeaderboardWithStars
    \/ \E a \in DOMAIN agentStore \cup UnknownAgentIds : Idle /\ GetTrust(a)

SpecFrame == Init /\ [][NextFrame]_vars

(* SpecSweep: SpecExpiry with a sweep timer that keeps firing: a sweep    *)
(* that has something to delete is not put off for ever                    *)
SpecSweep == Init /\ [][NextExpiry]_vars /\ WF_vars(Sweep)

(* SpecInterleave: one agent registers, proofs are generated and verified *)
(* and the reputation is computed while time passes and the sweep runs,    *)
(* also while a call is suspended.  Callers wait for one call to return    *)
(* before making the next; the databases, the FHE and the proof capability *)
(* answer every call, the scoring capability answers without a score.      *)
NextInterleave ==
    \/ \E name \in Names :
           /\ agentStore = << >>
           /\ Idle
           /\ RegisterAgent(name, CHOOSE salt \in Salts : TRUE, TRUE, "service")
    \/ \E rec \in DOMAIN calls : RegisterEncryptDone(rec, "ok")
    \/ \E a \in DOMAIN agentStore, request \in ExpiryRequests :
           Idle /\ GenerateProof(a, request)
    \/ \E rec \in DOMAIN calls : GenerateProofProved(rec, "ok")
    \/ \E rec \in DOMAIN calls : GenerateProofSaved(rec, TRUE)
    \/ \E proofId \in 1..MaxProofs : Idle /\ VerifyProof(proofId)
    \/ \E rec \in DOMAIN calls, answer \in VerifyAnswers : VerifyProofDone(rec, answer)
    \/ \E a \in DOMAIN agentStore :
           Idle /\ ComputeVerifiedReputation(a)
    \/ \E rec \in DOMAIN calls, answer \in OwnAnswers :
           ComputeVerifiedReputationScored(rec, answer)
    \/ \E rec \in DOMAIN calls : ComputeVerifiedReputationSaved(rec, TRUE)
    \/ Sweep
    \/ Tick

SpecInterleave == Init /\ [][NextInterleave]_vars

(* SpecReturn: one agent registers and logs a winning trade and then a    *)
(* losing one, on the service or through POST /trades with its key; the    *)
(* second call may begin while the first is suspended.  The durable        *)
(* backend and the collaborator answer every call.                         *)
TradeOrder == <<[pnl |-> 150000, ms |-> 110], [pnl |-> -25004, ms |-> 85]>>

NextReturn ==
    \/ \E name \in Names :
           /\ agentStore = << >>
           /\ RegisterAgent(name, CHOOSE salt \in Salts : TRUE, TRUE, "service")
    \/ \E rec \in DOMAIN calls : RegisterEncryptDone(rec, "ok")
    \/ \E a \in DOMAIN issued :
           /\ Validating = {}
           /\ TradesLogged < Len(TradeOrder)
           /\ LogTrade(a, TradeOrder[TradesLogged + 1])
    \/ \E a \in DOMAIN issued :
           /\ Validating = {}
           /\ TradesLogged < Len(TradeOrder)
           /\ PostTrades(a, issued[a], TradeOrder[TradesLogged + 1])
    \/ \E rec \in DOMAIN calls : PostTradesValidated(rec)
    \/ \E rec \in DOMAIN calls : LogTradeDbTradeDone(rec, TRUE)
    \/ \E rec \in DOMAIN calls : LogTradeDbMetricsDone(rec, TRUE)
    \/ \E rec \in DOMAIN calls : LogTradeFoldDone(rec, "ok")

SpecReturn == Init /\ [][NextReturn]_vars

(* SpecSnapshot: one agent registers, trades are logged and the           *)
(* reputation is computed; a trade may be logged while a computation       *)
(* awaits the scoring capability.  The databases and the FHE capability    *)
(* answer every call, the scoring capability answers with a score or       *)
(* without one.                                                            *)
Scoring == {rec \in DOMAIN calls : rec.op = "computeVerifiedReputation"}

NextSnapshot ==
    \/ \E name \in Names :
           /\ agentStore = << >>
           /\ RegisterAgent(name, CHOOSE salt \in Salts : TRUE, TRUE, "service")
    \/ \E rec \in DOMAIN calls : RegisterEncryptDone(rec, "ok")
    \/ \E a \in DOMAIN issued, t \in HttpTrades :
           /\ DOMAIN calls \subseteq Scoring
           /\ LogTrade(a, t)
    \/ \E rec \in DOMAIN calls : LogTradeDbTradeDone(rec, TRUE)
    \/ \E rec \in DOMAIN calls : LogTradeDbMetricsDone(rec, TRUE)
    \/ \E rec \in DOMAIN calls : LogTradeFoldDone(rec, "ok")
    \/ \E a \in DOMAIN issued :
           Idle /\ ComputeVerifiedReputation(a)
    \/ \E rec \in DOMAIN calls, answer \in FrameAnswers :
           ComputeVerifiedReputationScored(rec, answer)
    \/ \E rec \in DOMAIN calls : ComputeVerifiedReputationSaved(rec, TRUE)

SpecSnapshot == Init /\ [][NextSnapshot]_vars

(* SpecRecover: the collaborator may fail the encrypt call of the          *)
(* registration and answers every call after it; the database answers      *)
(* every call                                                              *)
NextRecover ==
    \/ \E name \in Names :
           /\ agentStore = << >>
           /\ RegisterAgent(name, CHOOSE salt \in Salts : TRUE, TRUE, "service")
    \/ \E rec \in DOMAIN calls, outcome \in FheOutcomes : RegisterEncryptDone(rec, outcome)
    \/ \E a \in DOMAIN agentStore, t \in Trades :
           Has(issued, a) /\ LogTrade(a, t)
    \/ \E rec \in DOMAIN calls : LogTradeDbTradeDone(rec, TRUE)
    \/ \E rec \in DOMAIN calls : LogTradeDbMetricsDone(rec, TRUE)
    \/ \E rec \in DOMAIN calls : LogTradeFoldDone(rec, "ok")

SpecRecover == Init /\ [][NextRecover]_vars

-----------------------------------------------------------------------------
(* Reference values: what a trade history amounts to, computed from the    *)
(* history and not by the code's update                                    *)

RECURSIVE SumOf(_, _)
SumOf(f, S) ==
    IF S = {} THEN 0
    ELSE LET k == CHOOSE x \in S : TRUE IN f[k] + SumOf(f, S \ {k})

(* Sum of F(t) over the members of the collection 'table', with copies *)
Total(table, F(_)) == SumOf([t \in DOMAIN table |-> table[t] * F(t)], DOMAIN table)

One(t) == 1
WinOf(t) == IF t.pnl > 0 THEN 1 ELSE 0
PnlOf(t) == t.pnl
MsOf(t) == t.ms

RECURSIVE MaxOf(_, _)
MaxOf(f, S) ==
    IF S = {} THEN 0
    ELSE LET k == CHOOSE x \in S : TRUE IN Max(f[k], MaxOf(f, S \ {k}))

(* Largest F(t) over the set S, 0 for the empty set *)
MaxOver(S, F(_)) == MaxOf([t \in S |-> F(t)], S)

(* Basis points of a losing trade: abs(pnl) * 100, rounded half up *)
LossBps(t) ==
    LET hundredths == Abs(t.pnl) * 100
    IN  IF (hundredths % PnlScale) * 2 >= PnlScale
        THEN hundredths \div PnlScale + 1
        ELSE hundredths \div PnlScale

Losses(table) == {t \in DOMAIN table : t.pnl < 0}

PendingTrades(a) == {rec \in DOMAIN calls : rec.op = "logTrade" /\ rec.agent = a}

(* The orders in which the trades of a collection can be applied *)
Orderings(table) ==
    LET n == Size(table)
    IN  {s \in [1..n -> DOMAIN table] :
            \A t \in DOMAIN table : Cardinality({i \in 1..n : s[i] = t}) = table[t]}

RECURSIVE ApplyAll(_, _)
ApplyAll(m, s) == IF s = << >> THEN m ELSE ApplyAll(ApplyTrade(m, Head(s)), Tail(s))

(* The ten-trade scenario of examples/demo.ts *)
ScenarioPnl == <<150, -50, 200, 75, -25, 300, 125, -100, 180, 250>>
ScenarioMs == <<85, 120, 95, 110, 88, 92, 78, 105, 82, 90>>
ScenarioTrades == [i \in 1..10 |-> [pnl |-> ScenarioPnl[i] * PnlScale, ms |-> ScenarioMs[i]]]
ScenarioResult == ApplyAll(initialMetrics, ScenarioTrades)

-----------------------------------------------------------------------------
(* C1: whatever the interleaving of logTrade calls on an agent, the        *)
(* agent's aggregates are those of applying the accepted trades one at a   *)
(* time in some order: no trade is lost or counted twice.  This holds in   *)
(* every state, so in particular once all calls have returned.             *)
C1_SerialAggregates ==
    \A a \in DOMAIN rawMetricsStore :
        \E s \in Orderings(submitted[a]) :
            rawMetricsStore[a] = ApplyAll(initialMetrics, s)

(* Two logTrade calls of one agent are suspended at awaits at once *)
C1_Witness ==
    \E a \in DOMAIN rawMetricsStore :
        /\ Count(calls, PendingTrades(a)) >= 2
        /\ \E r1, r2 \in PendingTrades(a) : r1.pc # r2.pc

(* C2: after n logTrade calls, total_trades = n, winning_trades = number   *)
(* of trades with pnl > 0, total_pnl = sum of pnl, avg_execution_time_ms = *)
(* mean of all n execution times; the ten-trade scenario gives 10 trades,  *)
(* 7 wins, P&L 1105, average 94.5, win rate 70%.                           *)
C2_AggregatesOfHistory ==
    /\ \A a \in DOMAIN rawMetricsStore :
          LET h == submitted[a]
              m == rawMetricsStore[a]
              n == Total(h, One)
          IN  /\ m.total_trades = n
              /\ m.winning_trades = Total(h, WinOf)
              /\ m.total_pnl_usd = Total(h, PnlOf)
              /\ n > 0 =>
                    m.avg_execution_time_ms[1] * n
                        = Total(h, MsOf) * m.avg_execution_time_ms[2]
              /\ n = 0 => m.avg_execution_time_ms[1] = 0
    /\ ScenarioResult.total_trades = 10
    /\ ScenarioResult.winning_trades = 7
    /\ ScenarioResult.total_pnl_usd = 1105 * PnlScale
    /\ ScenarioResult.avg_execution_time_ms = <<189, 2>>
    /\ ScenarioResult.winning_trades * 100 = 70 * ScenarioResult.total_trades

(* An agent has logged a zero-pnl trade and a winning trade, all returned *)
C2_Witness ==
    \E a \in DOMAIN rawMetricsStore :
        /\ PendingTrades(a) = {}
        /\ \E z, w \in DOMAIN submitted[a] : z.pnl = 0 /\ w.pnl > 0
        /\ rawMetricsStore[a].winning_trades = 1
        /\ rawMetricsStore[a].total_trades = 2

C3_Bounds ==
    \A a \in DOMAIN rawMetricsStore :
        /\ 0 <= rawMetricsStore[a].winning_trades
        /\ rawMetricsStore[a].winning_trades <= rawMetricsStore[a].total_trades
        /\ FracLeq(<<0, 1>>, getWinRate(a))
        /\ FracLeq(getWinRate(a), <<100, 1>>)
        /\ rawMetricsStore[a].total_trades = 0 => getWinRate(a) = <<0, 1>>

C3_Monotone ==
    \A a \in DOMAIN rawMetricsStore :
        /\ a \in DOMAIN rawMetricsStore'
        /\ rawMetricsStore'[a].total_trades >= rawMetricsStore[a].total_trades
        /\ rawMetricsStore'[a].winning_trades >= rawMetricsStore[a].winning_trades

(* C3: for every agent 0 <= winning_trades <= total_trades, getWinRate is  *)
(* within [0,100] (0 without trades), and total_trades and winning_trades  *)
(* never decrease from one state to the next.                              *)
C3_WinsWithinTrades == []C3_Bounds /\ [][C3_Monotone]_vars

(* An agent has logged a win and a trade that is no win *)
C3_Witness ==
    \E a \in DOMAIN rawMetricsStore :
        /\ rawMetricsStore[a].winning_trades >= 1
        /\ rawMetricsStore[a].total_trades > rawMetricsStore[a].winning_trades

C4_MaxOfLosses ==
    \A a \in DOMAIN rawMetricsStore :
        rawMetricsStore[a].max_drawdown_bps = MaxOver(Losses(submitted[a]), LossBps)

C4_NeverDecreases ==
    \A a \in DOMAIN rawMetricsStore :
        rawMetricsStore'[a].max_drawdown_bps >= rawMetricsStore[a].max_drawdown_bps

(* C4: max_drawdown_bps is the maximum over the losing trades logged so    *)
(* far of round(abs(pnl) * 100), 0 without a losing trade, and never       *)
(* decreases when a further trade is logged.                               *)
C4_Drawdown == []C4_MaxOfLosses /\ [][C4_NeverDecreases]_vars

(* An agent has logged the larger loss and then further trades: its        *)
(* drawdown is the larger loss's, rounded up                               *)
C4_Witness ==
    \E a \in DOMAIN rawMetricsStore :
        /\ Cardinality(Losses(submitted[a])) = 2
        /\ rawMetricsStore[a].max_drawdown_bps = 5001

(* C5: sharpe_proxy = 2 * winning_trades / total_trades for every agent    *)
(* with trades, and 0 for every agent without.                             *)
C5_SharpeProxy ==
    \A a \in DOMAIN rawMetricsStore :
        LET m == rawMetricsStore[a]
        IN  IF m.total_trades > 0
            THEN m.sharpe_ratio[1] * m.total_trades
                     = 2 * m.winning_trades * m.sharpe_ratio[2]
            ELSE m.sharpe_ratio[1] = 0

(* An agent with one win in two trades has sharpe_proxy 1 *)
C5_Witness ==
    \E a \in DOMAIN rawMetricsStore :
        /\ rawMetricsStore[a].total_trades = 2
        /\ rawMetricsStore[a].winning_trades = 1
        /\ rawMetricsStore[a].sharpe_ratio = <<1, 1>>

-----------------------------------------------------------------------------
(* The operations that take the id of an agent and fail for an id that was *)
(* never registered                                                        *)
AgentOps == {"logTrade", "generateProof", "computeVerifiedReputation"}

(* Nothing is kept, and no call is under way, for agent a                  *)
NothingKeptFor(a) ==
    /\ ~Has(rawMetricsStore, a)
    /\ ~Has(encryptedMetricsMap, a)
    /\ ~Has(verifiedReputations, a)
    /\ ~Has(dbMetrics, a)
    /\ ~Has(dbReputations, a)
    /\ \A row \in DOMAIN dbTrades : row.agentId # a
    /\ \A id \in DOMAIN proofsStore : proofsStore[id].agent_id # a
    /\ \A id \in DOMAIN dbProofs : dbProofs[id].agentId # a
    /\ \A rec \in DOMAIN calls : rec.agent # a

C6_FailsNotFound ==
    /\ (response.op \in AgentOps /\ response.agent \in UnknownAgentIds)
           => response.status = "NotFound"
    /\ \A a \in UnknownAgentIds : NothingKeptFor(a)

C6_LeavesStores ==
    (response' # response /\ response'.op \in AgentOps /\ response'.status = "NotFound")
        => UNCHANGED <<storeVars, repVars, calls>>

(* C6: logTrade, generateProof and computeVerifiedReputation called with   *)
(* an agent id that was never registered each fail with NotFound and leave *)
(* the metrics, the encrypted handles, the proofs, the reputations and the *)
(* durable rows as they were.                                              *)
C6_UnknownAgentNotFound == []C6_FailsNotFound /\ [][C6_LeavesStores]_vars

(* generateProof failed for an unknown agent while the stores held the     *)
(* trades, a proof and the reputation of a registered one                  *)
C6_Witness ==
    /\ response.op = "generateProof"
    /\ response.status = "NotFound"
    /\ response.agent \in UnknownAgentIds
    /\ proofsStore # << >>
    /\ verifiedReputations # << >>
    /\ \E a \in DOMAIN rawMetricsStore : rawMetricsStore[a].total_trades > 0

-----------------------------------------------------------------------------
(* The secret generated for agent a at its registration: the one its       *)
(* registerAgent call returned, or is about to return                      *)
Registering(a) == {rec \in DOMAIN calls : rec.op = "registerAgent" /\ rec.agent = a}

SecretOf(a) ==
    IF Has(issued, a) THEN issued[a]
    ELSE IF Registering(a) # {} THEN (CHOOSE rec \in Registering(a) : TRUE).ret.api_key
    ELSE NoData

(* What a trade request can change of an agent                             *)
TradeState == <<rawMetricsStore, encryptedMetricsMap, dbMetrics, dbTrades>>

(* A trade request that leaves its await on bcrypt in this step            *)
Leaves(rec) == rec \notin DOMAIN calls' \/ calls'[rec] < calls[rec]

(* C7, first half: the step that answers a trade request whose api_key is  *)
(* not the agent's secret answers 403 and changes neither metrics, nor     *)
(* encrypted handle, nor durable rows.                                     *)
C7_Rejects ==
    /\ \A rec \in Validating :
           (Leaves(rec) /\ rec.key # SecretOf(rec.agent))
               => /\ response' = Forbidden(rec.agent, rec.key)
                  /\ UNCHANGED TradeState
    /\ (response' # response /\ response'.op = "POST /trades" /\ response'.status = 403)
           => UNCHANGED TradeState

(* C7, second half: the metrics of an agent change over HTTP only in the   *)
(* step that accepts a trade request carrying that agent's secret.         *)
C7_OnlyBySecret ==
    \A a \in DOMAIN rawMetricsStore :
        rawMetricsStore'[a] # rawMetricsStore[a]
            => \E rec \in Validating :
                   /\ Leaves(rec)
                   /\ rec.agent = a
                   /\ rec.key = SecretOf(a)

C8_ValidatesOwnSecretOnly ==
    response.op = "validateApiKey"
        => /\ response.result \in BOOLEAN
           /\ response.result =
                  (/\ Has(agentStore, response.agent)
                   /\ agentStore[response.agent].api_key_hash # NoData
                   /\ response.candidate = SecretOf(response.agent))

(* The secret of one agent was refused for another registered agent        *)
C8_Witness ==
    /\ response.op = "validateApiKey"
    /\ response.result = FALSE
    /\ Has(issued, response.agent)
    /\ \E b \in DOMAIN issued : b # response.agent /\ response.candidate = issued[b]

(* Agent records that carry a raw secret                                   *)
IsRaw(v) == v.kind = "atk"

HoldsRaw(agent) ==
    \/ IsRaw(agent.api_key)
    \/ IsRaw(agent.api_key_hash)

(* C9: the raw secret is returned only by the registerAgent call that      *)
(* issued it; no entry of the agent store and no durable agent row         *)
(* contains a raw secret, and no getAgent or getAllAgents result does.     *)
C9_RawSecretOnlyAtRegistration ==
    /\ \A a \in DOMAIN agentStore : ~HoldsRaw(agentStore[a])
    /\ \A a \in DOMAIN dbAgents : ~IsRaw(dbAgents[a].apiKey)
    /\ (response.op = "getAgent" /\ response.found) => ~HoldsRaw(response.result)
    /\ response.op = "getAllAgents"
           => \A a \in DOMAIN response.result : ~HoldsRaw(response.result[a])
    /\ response.op = "registerAgent"
           => /\ IsRaw(response.data.api_key)
              /\ \A a \in DOMAIN issued :
                     issued[a] = response.data.api_key => a = response.data.agent_id

(* getAllAgents answered with two agents registered, both with a durable   *)
(* row                                                                     *)
C9_Witness ==
    /\ response.op = "getAllAgents"
    /\ Cardinality(DOMAIN response.result) = 2
    /\ DOMAIN issued = DOMAIN response.result
    /\ DOMAIN dbAgents = DOMAIN response.result

(* The fields of a public agent, swagger.ts lines 223-231 *)
PublicAgentFields == {"agent_id", "name", "public_key", "created_at"}

(* C10: the agents in the answers of GET /agents and GET /agents/{id} have *)
(* only the fields agent_id, name, public_key and created_at: neither the  *)
(* raw key nor the stored credential hash.                                 *)
C10_PublicFieldsOnly ==
    response.op \in {"GET /agents", "GET /agents/:agent_id"}
        => \A i \in DOMAIN response.data :
               DOMAIN response.data[i] \subseteq PublicAgentFields

-----------------------------------------------------------------------------
(* The registerAgent calls that begin in this step                         *)
Begun ==
    {rec \in DOMAIN calls' :
        /\ rec.op = "registerAgent"
        /\ rec \notin DOMAIN calls \/ calls'[rec] > calls[rec]}

C11_Fresh(rec) ==
    /\ rec.agent \notin DOMAIN agentStore
    /\ rec.agent \in DOMAIN agentStore'
    /\ \A a \in DOMAIN agentStore :
           /\ rec.ret.api_key # SecretOf(a)
           /\ agentStore'[rec.agent].api_key_hash # agentStore[a].api_key_hash
    /\ rawMetricsStore'[rec.agent] = initialMetrics

C11_KeepsEarlier ==
    \A a \in DOMAIN agentStore :
        /\ agentStore'[a] = agentStore[a]
        /\ rawMetricsStore'[a] = rawMetricsStore[a]
        /\ SecretOf(a)' = SecretOf(a)

(* C11: every registerAgent call, also one with the name of an existing    *)
(* agent, creates an agent whose id and credential differ from those of    *)
(* every agent registered before, gives it zeroed metrics, and leaves      *)
(* every earlier agent, its metrics and its credential unchanged.          *)
C11_RegistrationIsFresh ==
    [][\A rec \in Begun : C11_Fresh(rec) /\ C11_KeepsEarlier]_vars

(* A second agent of the same name is being registered while the first     *)
(* has trades                                                              *)
C11_Witness ==
    \E rec \in DOMAIN calls, a \in DOMAIN agentStore :
        /\ rec.op = "registerAgent"
        /\ rec.agent # a
        /\ agentStore[a].name = rec.ret.name
        /\ rawMetricsStore[a].total_trades > 0
        /\ rawMetricsStore[rec.agent] = initialMetrics

-----------------------------------------------------------------------------
C12_Returns(rec) ==
    /\ response'.op = "logTrade"
    /\ response'.status = "ok"
    /\ response'.agent = rec.agent
    /\ response'.trade = rec.trade
    /\ response'.metrics = rawMetricsStore'[rec.agent]
    /\ response'.metrics.total_trades = Size(submitted[rec.agent])
    /\ Has(submitted[rec.agent], rec.trade)

-----------------------------------------------------------------------------
(* C13: an agent whose registration could not encrypt is registered and    *)
(* logTrade works for it without an encrypted handle; once a logTrade for  *)
(* it has run with the collaborator available, the agent has an encrypted  *)
(* handle.                                                                 *)
C13_HandleAfterTrade ==
    /\ \A a \in DOMAIN issued : Has(agentStore, a) /\ Has(rawMetricsStore, a)
    /\ (response.op = "logTrade" /\ Has(issued, response.agent))
           => /\ response.status = "ok"
              /\ Has(encryptedMetricsMap, response.agent)

-----------------------------------------------------------------------------
(* C14: registerAgent and logTrade succeed and update the cache whether    *)
(* the durable backend is connected, was unreachable at start or fails on  *)
(* the call; getAgent, getMetrics and getWinRate then answer from the      *)
(* cache what the calls made so far amount to, whatever the backend holds. *)
C14_CacheServesReads ==
    /\ response.op = "registerAgent"
           => response.status = "ok" /\ Has(agentStore, response.data.agent_id)
    /\ (response.op = "logTrade" /\ Has(agentStore, response.agent))
           => response.status = "ok"
    /\ \A a \in DOMAIN agentStore :
           LET h == submitted[a]
               n == Total(h, One)
           IN  /\ agentStore[a].agent_id = a
               /\ verifyApiKey(SecretOf(a), agentStore[a].api_key_hash)
               /\ getMetrics(a) # NoData
               /\ getMetrics(a).total_trades = n
               /\ getMetrics(a).total_pnl_usd = Total(h, PnlOf)
               /\ getWinRate(a) = IF n = 0 THEN <<0, 1>> ELSE Frac(100 * Total(h, WinOf), n)

(* With a database connected, all calls have returned and the durable      *)
(* metrics row counts fewer trades than the cache                          *)
C14_Witness ==
    /\ useDatabase
    /\ calls = << >>
    /\ \E a \in DOMAIN agentStore :
           /\ Has(dbMetrics, a)
           /\ dbMetrics[a].totalTrades < rawMetricsStore[a].total_trades
           /\ dbMetrics[a].winningTrades < rawMetricsStore[a].winning_trades
           /\ response.op = "logTrade"
           /\ response.agent = a

-----------------------------------------------------------------------------
(* C15: generateProof for a registered agent and a supported proof type    *)
(* stores and returns a proof with a fresh id that expires 24 hours after  *)
(* its creation, whether the proof capability succeeds, answers with an    *)
(* error or does not answer; in the failure cases the proof blob is made   *)
(* locally, so it is never missing.                                        *)
C15_ProofAlwaysIssued ==
    (/\ response.op = "generateProof"
     /\ Has(agentStore, response.agent)
     /\ response.status # "UnknownProofType")
        => /\ response.status = "ok"
           /\ Has(proofsStore, response.proof.proof_id)
           /\ proofsStore[response.proof.proof_id] = response.proof
           /\ response.proof.expires_at = response.proof.created_at + ProofTtl
           /\ response.proof.proof_data # ""
           /\ response.proof.verification_key # ""

-----------------------------------------------------------------------------
(* What proof p of request 'request' must record for agent a, whose        *)
(* aggregates are those of the cache: the supplied thresholds and the      *)
(* claim evaluated on the aggregates against them                          *)
C16_Records(request, p, a) ==
    LET inputs == request.public_inputs
        out == p.public_outputs
    IN  CASE request.proof_type = "win_rate" ->
                 /\ "threshold" \in DOMAIN out
                 /\ out.threshold = inputs.threshold
                 /\ out.meets_threshold = FracLeq(<<inputs.threshold, 1>>, getWinRate(a))
          [] request.proof_type = "trade_count" ->
                 /\ "min_trades" \in DOMAIN out
                 /\ out.min_trades = inputs.min_trades
                 /\ out.meets_threshold = (getMetrics(a).total_trades >= inputs.min_trades)
          [] request.proof_type = "composite" ->
                 /\ "min_trades" \in DOMAIN out
                 /\ out.criteria_results.trades
                        = (getMetrics(a).total_trades >= inputs.min_trades)
                 /\ out.all_criteria_met
                        = \A c \in DOMAIN out.criteria_results : out.criteria_results[c]
          [] OTHER -> TRUE

(* C16: a win_rate, trade_count or composite proof records in its          *)
(* public_outputs the thresholds of the request and a met-flag equal to    *)
(* the claim evaluated on the agent's aggregates against the supplied      *)
(* thresholds, also for a threshold of 0 and when the collaborator's       *)
(* outputs say the opposite.                                               *)
C16_LocalTruthRecorded ==
    [][\A rec \in Proving :
           (Leaves(rec) /\ proofSeq' = proofSeq + 1)
               => C16_Records(rec.request, proofsStore'[proofSeq'], rec.agent)]_vars

-----------------------------------------------------------------------------
(* C17: a verifyProof call for a proof that was generated, made strictly   *)
(* later than 24 hours after the proof's created_at, fails with Expired,   *)
(* whatever the collaborator does and whether or not the sweep has run.    *)
C17_ExpiredAfterTtl ==
    (/\ response.op = "verifyProof"
     /\ Has(generated, response.proof_id)
     /\ response.at > generated[response.proof_id] + ProofTtl)
        => response.status = "Expired"

-----------------------------------------------------------------------------
(* The generateProof call rec returns a win_rate proof that records the    *)
(* threshold as met                                                        *)
C18_RecordsMet(rec) ==
    /\ proofSeq' = proofSeq + 1
    /\ Has(proofsStore', proofSeq')
    /\ proofsStore'[proofSeq'].public_outputs.meets_threshold = TRUE

(* The verifyProof call rec returns the verdict valid *)
C18_VerifiesValid(rec) ==
    /\ response'.op = "verifyProof"
    /\ response'.status = "ok"
    /\ response'.result.valid = TRUE

(* C18: for an agent whose win rate is at least the requested threshold,   *)
(* generateProof('win_rate') records meets_threshold true, and verifyProof *)
(* of such a proof before its expiry returns valid true, also when the     *)
(* collaborator is unavailable.                                            *)
C18_MetProofVerifies ==
    [][\A rec \in DOMAIN calls :
           /\ (/\ rec.pc = "awaitProve"
               /\ rec.request.proof_type = "win_rate"
               /\ FracLeq(<<rec.request.public_inputs.threshold, 1>>, getWinRate(rec.agent))
               /\ Leaves(rec))
                  => C18_RecordsMet(rec)
           /\ (/\ rec.pc = "awaitVerify"
               /\ rec.public_outputs.meets_threshold = TRUE
               /\ Leaves(rec))
                  => C18_VerifiesValid(rec)]_vars

-----------------------------------------------------------------------------
(* C19: computeVerifiedReputation for a registered agent returns and       *)
(* stores a VerifiedReputation, whether the scoring capability returns a   *)
(* score, an error, a response without a score, or does not answer.        *)
C19_AlwaysScored ==
    (response.op = "computeVerifiedReputation" /\ Has(agentStore, response.agent))
        => /\ response.status = "ok"
           /\ Has(verifiedReputations, response.agent)
           /\ verifiedReputations[response.agent] = response.verified

-----------------------------------------------------------------------------
(* The fallback score of a trade history h with k counted proofs:          *)
(* min(round(min(n/200*30, 30) + min(wr*40, 40) + min(max(pnl, 0)/10000*20, *)
(* 20) + exec) + min(5k, 15), 100), from the history itself                *)
C20_Score(h, k) ==
    LET n    == Total(h, One)
        pnl  == Total(h, PnlOf)
        wr   == IF n = 0 THEN <<0, 1>> ELSE Frac(Total(h, WinOf), n)
        avg  == IF n = 0 THEN <<0, 1>> ELSE Frac(Total(h, MsOf), n)
        exec == IF FracLeq(avg, <<50, 1>>) THEN 10
                ELSE IF FracLeq(avg, <<100, 1>>) THEN 7
                ELSE IF FracLeq(avg, <<200, 1>>) THEN 4
                ELSE 0
        sum  == FracAdd(FracAdd(FracMin(Frac(n * 30, 200), <<30, 1>>),
                                FracMin(Frac(wr[1] * 40, wr[2]), <<40, 1>>)),
                        FracAdd(FracMin(Frac(Max(pnl, 0) * 20, 10000 * PnlScale), <<20, 1>>),
                                <<exec, 1>>))
    IN  Min(MathRound(sum[1], sum[2]) + Min(5 * k, 15), 100)

(* The proofs of agent a that were generated and whose expires_at is still *)
(* ahead                                                                   *)
C20_Unexpired(a) ==
    {id \in DOMAIN generated :
        now < generated[id] + ProofTtl /\ proofsStore[id].agent_id = a}

(* The computeVerifiedReputation calls that begin in this step *)
C20_Begun ==
    {rec \in DOMAIN calls' :
        /\ rec.op = "computeVerifiedReputation"
        /\ rec.pc = "awaitScore"
        /\ rec \notin DOMAIN calls \/ calls'[rec] > calls[rec]}

(* Answers of the scoring capability that carry no score *)
C20_NoScore == {answer \in MpcAnswers : answer.kind \in {"error", "empty"}}

(* Every call counts the proofs unexpired when it begins, and a call       *)
(* answered without a score stores the fallback score of the agent's       *)
(* trades and that count                                                   *)
C20_FallbackFormula ==
    /\ \A rec \in C20_Begun : rec.proofs = Cardinality(C20_Unexpired(rec.agent))
    /\ \A rec \in DOMAIN calls, answer \in C20_NoScore :
           ComputeVerifiedReputationScored(rec, answer)
               => verifiedReputations'[rec.agent].reputation_score
                      = C20_Score(submitted[rec.agent], rec.proofs)

(* The fallback score of the 10-trade scenario (10 trades, 7 wins, P&L     *)
(* 1105, average execution 94.5 ms) without proofs                         *)
C20_ScenarioScore ==
    computeVerifiedScore(1, 0, ScenarioResult, [kind |-> "error"], 0).reputation_score

-----------------------------------------------------------------------------
(* C21: every stored VerifiedReputation has a score between 0 and 100,     *)
(* whatever the scoring capability returned and whatever the agent's       *)
(* aggregates and proofs are.                                              *)
C21_ScoreInRange ==
    \A a \in DOMAIN verifiedReputations :
        /\ verifiedReputations[a].reputation_score >= 0
        /\ verifiedReputations[a].reputation_score <= 100

-----------------------------------------------------------------------------
(* TIER_THRESHOLDS read from the strictest band downward: the first band   *)
(* whose min_score, min_trades and min_win_rate are all met                *)
C22_Band(score, trades, wins) ==
    LET Meets(minScore, minTrades, minWinRate) ==
            /\ score >= minScore
            /\ trades >= minTrades
            /\ trades > 0
            /\ 100 * wins >= minWinRate * trades
    IN  IF Meets(95, 1000, 75) THEN "diamond"
        ELSE IF Meets(85, 500, 68) THEN "platinum"
        ELSE IF Meets(75, 200, 62) THEN "gold"
        ELSE IF Meets(60, 50, 55) THEN "silver"
        ELSE IF Meets(50, 25, 50) THEN "bronze"
        ELSE "unverified"

(* C22: when the tier is assigned locally, the stored tier is the first    *)
(* band, from the strictest downward, whose score, trade-count and         *)
(* win-rate minimums the agent all meets, and 'unverified' if there is     *)
(* none.                                                                   *)
C22_TierNeedsAllThree ==
    [][\A rec \in DOMAIN calls, answer \in C20_NoScore :
           ComputeVerifiedReputationScored(rec, answer)
               => verifiedReputations'[rec.agent].tier
                      = C22_Band(verifiedReputations'[rec.agent].reputation_score,
                                 rec.metrics.total_trades,
                                 rec.metrics.winning_trades)]_vars

-----------------------------------------------------------------------------
(* The catalog badges whose predicate is true of the trade history h *)
C24_Earned(h) ==
    LET n    == Total(h, One)
        wins == Total(h, WinOf)
        pnl  == Total(h, PnlOf)
        ms   == Total(h, MsOf)
    IN  {badge \in {"first_trade", "profitable", "consistent", "veteran", "whale",
                    "speed_demon"} :
            CASE badge = "first_trade" -> n >= 1
              [] badge = "profitable"  -> pnl > 0
              [] badge = "consistent"  -> n > 0 /\ 100 * wins >= 60 * n
              [] badge = "veteran"     -> n >= 100
              [] badge = "whale"       -> pnl >= 10000 * PnlScale
              [] badge = "speed_demon" -> ms < 100 * n \/ n = 0}

(* The members of the sequence s *)
C24_Members(s) == {s[i] : i \in DOMAIN s}

(* C24: after each computeVerifiedReputation the stored badge set is       *)
(* exactly the catalog badges whose predicate holds of the agent's current *)
(* aggregates; a badge stored by an earlier verification whose predicate   *)
(* no longer holds is absent.                                              *)
C24_BadgesRecomputed ==
    [][\A rec \in DOMAIN calls, answer \in MpcAnswers :
           (answer.kind # "throw" /\ ComputeVerifiedReputationScored(rec, answer))
               => LET badges == verifiedReputations'[rec.agent].badges
                  IN  /\ C24_Members(badges) = C24_Earned(submitted[rec.agent])
                      /\ Len(badges) = Cardinality(C24_Members(badges))]_vars

(* The verification under way has stored badges without 'consistent'       *)
(* while the row of the verification before it still lists 'consistent'    *)
C24_Witness ==
    \E rec \in DOMAIN calls :
        /\ rec.pc = "awaitDbReputation"
        /\ Has(dbReputations, rec.agent)
        /\ "consistent" \in C24_Members(dbReputations[rec.agent].badges)
        /\ "consistent" \notin C24_Members(verifiedReputations[rec.agent].badges)
        /\ rawMetricsStore[rec.agent].winning_trades > 0

-----------------------------------------------------------------------------
(* The stored proofs owned by agent a, without those created a life or     *)
(* more ago                                                                *)
C27_OwnUnexpired(a) ==
    {id \in DOMAIN proofsStore : proofsStore[id].agent_id = a}
        \ {id \in DOMAIN generated : generated[id] + ProofTtl <= now}

-----------------------------------------------------------------------------
(* The length of the block the configuration asks for *)
C28_BlockDuration(config) ==
    IF "blockDurationMs" \in DOMAIN config THEN config.blockDurationMs ELSE config.windowMs

(* The start of the window in force after the first k calls of log: a      *)
(* window is opened by the first call allowed after the one before it has  *)
(* run out; -1 before any                                                  *)
RECURSIVE C28_WindowStart(_, _, _)
C28_WindowStart(log, config, k) ==
    IF k = 0 THEN -1
    ELSE LET before == C28_WindowStart(log, config, k - 1)
         IN  IF log[k].allowed /\ (before = -1 \/ log[k].at > before + config.windowMs)
             THEN log[k].at
             ELSE before

(* The calls allowed in the window in force after the first k calls *)
RECURSIVE C28_Allowed(_, _, _)
C28_Allowed(log, config, k) ==
    IF k = 0 THEN 0
    ELSE IF ~log[k].allowed THEN C28_Allowed(log, config, k - 1)
    ELSE IF C28_WindowStart(log, config, k) # C28_WindowStart(log, config, k - 1)
              \/ C28_Allowed(log, config, k - 1) = 0
    THEN 1
    ELSE C28_Allowed(log, config, k - 1) + 1

(* The end of the block in force after the first k calls: a block is       *)
(* started by a call denied outside a block; 0 before any                  *)
RECURSIVE C28_BlockEnd(_, _, _)
C28_BlockEnd(log, config, k) ==
    IF k = 0 THEN 0
    ELSE LET before == C28_BlockEnd(log, config, k - 1)
         IN  IF ~log[k].allowed /\ log[k].at >= before
             THEN log[k].at + C28_BlockDuration(config)
             ELSE before

(* The calls of one identifier keep the limit, the first call beyond it is *)
(* denied and so is every call during a block                              *)
C28_Limited(identifier) ==
    LET log    == LimitedOf(identifier)
        config == LimitConfig(identifier)
    IN  \A k \in 1..Len(log) :
            /\ C28_Allowed(log, config, k) <= config.maxRequests
            /\ (/\ C28_Allowed(log, config, k - 1) = config.maxRequests
                /\ log[k].at <= C28_WindowStart(log, config, k - 1) + config.windowMs)
                   => ~log[k].allowed
            /\ log[k].at < C28_BlockEnd(log, config, k - 1) => ~log[k].allowed

(* A call for one identifier leaves the entries of the others alone and    *)
(* gets the outcome it would get were its own entry the only one           *)
C28_Independent ==
    \A i \in Identifiers :
        Len(LimitedOf(i))' > Len(LimitedOf(i))
            => /\ \A j \in Identifiers \ {i} :
                      /\ Has(rateLimitStore', j) = Has(rateLimitStore, j)
                      /\ Has(rateLimitStore, j) => rateLimitStore'[j] = rateLimitStore[j]
               /\ LimitedOf(i)'[Len(LimitedOf(i)')].allowed
                      = checkRateLimit([k \in DOMAIN rateLimitStore \cap {i}
                                           |-> rateLimitStore[k]],
                                       i, LimitConfig(i), now).result.allowed

(* C28: for each identifier checkRateLimit allows at most maxRequests      *)
(* calls within one window of windowMs; the first call beyond the limit is *)
(* denied and starts a block of blockDurationMs (windowMs when not given), *)
(* during which every call for the identifier is denied; the outcome for   *)
(* one identifier does not depend on the calls for another.                *)
C28_FixedWindowAndBlock ==
    [](\A identifier \in Identifiers : C28_Limited(identifier))
    /\ [][C28_Independent]_vars

(* An identifier was denied after its window had run out, because its      *)
(* block was still on, and allowed once the block was over, while the      *)
(* other identifier was allowed at the time of a denial                    *)
C28_Witness ==
    /\ Has(limited, "ip1")
    /\ Has(limited, "ip2")
    /\ LET log == limited["ip2"]
       IN  \E i, j, k \in 1..Len(log) :
               /\ i < j /\ j < k
               /\ log[1].allowed
               /\ ~log[i].allowed
               /\ ~log[j].allowed
               /\ log[j].at > log[1].at + LimitConfig("ip2").windowMs
               /\ log[k].allowed
               /\ \E n \in 1..Len(limited["ip1"]) :
                      limited["ip1"][n].allowed /\ limited["ip1"][n].at = log[j].at

-----------------------------------------------------------------------------
(* C29: a client that in its current minute has made fewer than 100 write  *)
(* requests and fewer than 500 requests in all, and is not within the      *)
(* minute after a rejection, is not rejected.                              *)
C29_WithinLimitsNotRejected ==
    [][\A ip \in ClientIps, write \in BOOLEAN :
           (/\ Request(ip, write)
            /\ MadeBy(ip).total < GlobalMax
            /\ MadeBy(ip).writes < WriteMax
            /\ (MadeBy(ip).rejectedAt = -1
                \/ now > MadeBy(ip).rejectedAt + MinuteTicks))
               => response'.status # 429]_vars

-----------------------------------------------------------------------------
(* C23: calculateStarRating answers 'unverified' with 0 stars for an agent *)
(* without a VerifiedReputation; otherwise the first of three_star,        *)
(* two_star, one_star, verified whose thresholds on score, total_trades,   *)
(* win rate and total P&L are all met, and 'unverified' when none is; the  *)
(* stars are in 0..3.                                                      *)
C23_Meets(agentId, band) ==
    LET m == rawMetricsStore[agentId]
    IN  /\ verifiedReputations[agentId].reputation_score >= STAR_THRESHOLDS[band].min_score
        /\ m.total_trades >= STAR_THRESHOLDS[band].min_trades
        /\ m.total_trades > 0
        /\ 100 * m.winning_trades >= STAR_THRESHOLDS[band].min_win_rate * m.total_trades
        /\ m.total_pnl_usd >= STAR_THRESHOLDS[band].min_pnl * PnlScale

C23_Rating(agentId) ==
    IF ~Has(verifiedReputations, agentId) \/ ~Has(rawMetricsStore, agentId)
    THEN [stars |-> 0, rating |-> "unverified"]
    ELSE IF C23_Meets(agentId, "three_star") THEN [stars |-> 3, rating |-> "three_star"]
    ELSE IF C23_Meets(agentId, "two_star") THEN [stars |-> 2, rating |-> "two_star"]
    ELSE IF C23_Meets(agentId, "one_star") THEN [stars |-> 1, rating |-> "one_star"]
    ELSE IF C23_Meets(agentId, "verified") THEN [stars |-> 0, rating |-> "verified"]
    ELSE [stars |-> 0, rating |-> "unverified"]

C23_FirstBandMeetingAll ==
    response.op = "calculateStarRating" =>
        /\ response.result = C23_Rating(response.agent)
        /\ response.result.stars \in 0..3

-----------------------------------------------------------------------------
(* C25: a leaderboard, from getLeaderboard or getLeaderboardWithStars,     *)
(* lists exactly the registered agents that have a VerifiedReputation with *)
(* a score above 0, each once.                                             *)
C25_Listed(board) == {board[i].agent_id : i \in DOMAIN board}

C25_Scored ==
    {a \in DOMAIN agentStore :
        Has(verifiedReputations, a) /\ verifiedReputations[a].reputation_score > 0}

C25_IsLeaderboard == response.op \in {"getLeaderboard", "getLeaderboardWithStars"}

C25_ExactlyScoredAgents ==
    C25_IsLeaderboard =>
        /\ C25_Listed(response.result) = C25_Scored
        /\ Len(response.result) = Cardinality(C25_Scored)

(* A leaderboard that lists one agent and leaves out one whose stored      *)
(* score is 0                                                              *)
C25_Witness ==
    /\ response.op = "getLeaderboardWithStars"
    /\ Len(response.result) = 1
    /\ \E a \in DOMAIN agentStore :
           /\ Has(verifiedReputations, a)
           /\ verifiedReputations[a].reputation_score = 0

-----------------------------------------------------------------------------
(* C26: of any two entries of a leaderboard the earlier one has more       *)
(* stars, or as many stars and a score at least as high.                   *)
C26_OrderedByStarsThenScore ==
    C25_IsLeaderboard =>
        \A i, j \in DOMAIN response.result :
            i < j =>
                LET earlier == response.result[i]
                    later   == response.result[j]
                    stars(entry) == calculateStarRating(entry.agent_id).stars
                IN  \/ stars(earlier) > stars(later)
                    \/ /\ stars(earlier) = stars(later)
                       /\ earlier.reputation_score >= later.reputation_score

-----------------------------------------------------------------------------
(* C30: POST /trust/verify reports valid only when the certificate_hash it *)
(* was given is the hash of a certificate of that agent.                   *)
C30_ValidOnlyForAuthenticHash ==
    (response.op = "POST /trust/verify" /\ response.data.valid) =>
        /\ getTrustCertificate(response.agent) # NoData
        /\ response.certificate_hash = getTrustCertificate(response.agent).certificate_hash

-----------------------------------------------------------------------------
(* C31: reading a star rating, a leaderboard or a trust certificate        *)
(* changes no store, and a step of computeVerifiedReputation changes       *)
(* nothing but the VerifiedReputation of its agent (and the durable row of *)
(* it): agents, metrics, encrypted handles and the proof ledger stay as    *)
(* they are, and there is at most one VerifiedReputation per agent.        *)
C31_StoresKept ==
    UNCHANGED <<agentStore, rawMetricsStore, encryptedMetricsMap, proofsStore,
                dbAgents, dbMetrics, dbTrades, dbProofs>>

C31_ReputationsKeptBut(agentId) ==
    /\ DOMAIN verifiedReputations \subseteq DOMAIN verifiedReputations'
    /\ DOMAIN verifiedReputations' \subseteq DOMAIN verifiedReputations \cup {agentId}
    /\ \A a \in DOMAIN verifiedReputations \ {agentId} :
           verifiedReputations'[a] = verifiedReputations[a]
    /\ DOMAIN dbReputations' \subseteq DOMAIN dbReputations \cup {agentId}
    /\ \A a \in DOMAIN dbReputations \ {agentId} : dbReputations'[a] = dbReputations[a]
    /\ \A a \in DOMAIN verifiedReputations' : verifiedReputations'[a].agent_id = a

C31_Reads ==
    \/ \E a \in DOMAIN agentStore \cup UnknownAgentIds : CalculateStarRating(a)
    \/ GetLeaderboard
    \/ GetLeaderboardWithStars
    \/ \E a \in DOMAIN agentStore \cup UnknownAgentIds : GetTrust(a)

C31_Computes(agentId) ==
    \/ ComputeVerifiedReputation(agentId)
    \/ \E rec \in DOMAIN calls, answer \in FrameAnswers :
           rec.agent = agentId /\ ComputeVerifiedReputationScored(rec, answer)
    \/ \E rec \in DOMAIN calls :
           rec.agent = agentId /\ ComputeVerifiedReputationSaved(rec, TRUE)

C31_ReadsAndScoringKeepStores ==
    [][/\ C31_Reads =>
              C31_StoresKept /\ UNCHANGED <<verifiedReputations, dbReputations>>
       /\ \A agentId \in 1..MaxAgents \cup UnknownAgentIds :
              C31_Computes(agentId) =>
                  C31_StoresKept /\ C31_ReputationsKeptBut(agentId)]_vars

(* The reputation of one agent has been overwritten by a second            *)
(* computation while the other agent has a reputation, trades and a        *)
(* proof are stored, and a certificate has been read                       *)
C31_Witness ==
    /\ response.op = "GET /trust"
    /\ response.status = 200
    /\ Cardinality(DOMAIN verifiedReputations) = 2
    /\ \E a \in DOMAIN verifiedReputations :
           /\ verifiedReputations[a].mpc_attestation.kind = "remote"
           /\ Has(dbReputations, a)
    /\ \E a \in DOMAIN verifiedReputations :
           verifiedReputations[a].mpc_attestation.kind = "local"
    /\ proofsStore # << >>
    /\ \E a \in DOMAIN rawMetricsStore : rawMetricsStore[a].total_trades > 0

-----------------------------------------------------------------------------
(* C32: with a sweep that keeps firing, every stored proof whose           *)
(* expires_at has passed is eventually removed from the ledger.            *)
C32_ExpiredStored(id) == Has(proofsStore, id) /\ now > proofsStore[id].expires_at

C32_ExpiredEventuallyRemoved ==
    \A id \in 1..MaxProofs : C32_ExpiredStored(id) ~> ~Has(proofsStore, id)

(* A proof that was stored, expired and removed while a later proof is     *)
(* still in the ledger                                                     *)
C32_Witness ==
    /\ Has(generated, 1)
    /\ ~Has(proofsStore, 1)
    /\ now > generated[1] + ProofTtl
    /\ Has(proofsStore, 2)

-----------------------------------------------------------------------------
(* C33: a sweep removes exactly the proofs with now > expires_at and       *)
(* leaves the others as they are, a second sweep at the same instant finds *)
(* nothing to remove, and a sweep while a generateProof, verifyProof or    *)
(* computeVerifiedReputation call is suspended neither loses an unexpired  *)
(* proof nor changes what the call read: a proof is verified only if it    *)
(* was unexpired when the call read it, and the proofs counted are the     *)
(* unexpired ones of the time the call began.                              *)
C33_Unexpired(id) == ~(now > generated[id] + ProofTtl)

(* Every proof generated and not yet expired is in the ledger, as generated *)
C33_UnexpiredKept ==
    \A id \in DOMAIN generated :
        C33_Unexpired(id) =>
            /\ Has(proofsStore, id)
            /\ proofsStore[id].created_at = generated[id]
            /\ proofsStore[id].expires_at = generated[id] + ProofTtl

C33_SweepRemovesExpired ==
    Sweep =>
        /\ DOMAIN proofsStore' = {id \in DOMAIN proofsStore : ~(now > proofsStore[id].expires_at)}
        /\ \A id \in DOMAIN proofsStore' : proofsStore'[id] = proofsStore[id]
        /\ \A id \in DOMAIN proofsStore' : ~(now' > proofsStore'[id].expires_at)
        /\ UNCHANGED <<calls, response, verifiedReputations, dbProofs, now>>

(* No step but the sweep removes a proof, and no step changes a stored one *)
C33_OnlySweepRemoves ==
    /\ \A id \in DOMAIN proofsStore \cap DOMAIN proofsStore' :
           proofsStore'[id] = proofsStore[id]
    /\ \A id \in DOMAIN proofsStore \ DOMAIN proofsStore' :
           now > proofsStore[id].expires_at

C33_VerifiedWasUnexpired ==
    \A rec \in DOMAIN calls, answer \in VerifyAnswers :
        VerifyProofDone(rec, answer) =>
            /\ ~(rec.at > generated[rec.proof_id] + ProofTtl)
            /\ answer # "throw" =>
                   response'.result =
                       verifyReputationProof("zk_proof", "zk_key", answer)

C33_CountsUnexpired ==
    \A a \in DOMAIN agentStore :
        ComputeVerifiedReputation(a) =>
            \A rec \in DOMAIN calls' :
                rec.op = "computeVerifiedReputation" =>
                    rec.proofs = Cardinality({id \in DOMAIN generated :
                                                 now < generated[id] + ProofTtl})

C33_SweepSafe ==
    /\ []C33_UnexpiredKept
    /\ [][/\ C33_SweepRemovesExpired
          /\ C33_OnlySweepRemoves
          /\ C33_VerifiedWasUnexpired
          /\ C33_CountsUnexpired]_vars

(* A verifyProof call is suspended, its proof has expired and has been     *)
(* swept, and a later proof is still in the ledger                         *)
C33_Witness ==
    /\ \E rec \in DOMAIN calls :
           /\ rec.op = "verifyProof"
           /\ ~Has(proofsStore, rec.proof_id)
    /\ proofsStore # << >>

-----------------------------------------------------------------------------
(* C34: the public_outputs of a pnl_threshold proof record the requested   *)
(* min_pnl and max_pnl, and pnl_in_range is true exactly when the agent's  *)
(* total P&L at that time lies between them.                               *)
C34_PnlInRangeIsTruth ==
    [][\A rec \in DOMAIN calls, answer \in ZkAnswers \ {"throw"} :
           (GenerateProofProved(rec, answer) /\ rec.request.proof_type = "pnl_threshold")
               => LET outputs == proofsStore'[proofSeq'].public_outputs
                      inputs  == rec.request.public_inputs
                      pnl     == rawMetricsStore[rec.agent].total_pnl_usd
                  IN  /\ outputs.min_pnl = inputs.min_pnl
                      /\ outputs.max_pnl = inputs.max_pnl
                      /\ outputs.pnl_in_range =
                             (/\ inputs.min_pnl * PnlScale <= pnl
                              /\ pnl <= inputs.max_pnl * PnlScale)]_vars

-----------------------------------------------------------------------------
(* C35: the cleanup of the rate limiter deletes an entry only when its     *)
(* window and its block are both over; for every identifier and every time *)
(* from then on checkRateLimit returns the same result, and leaves the     *)
(* same entry, with the cleaned store as with the uncleaned one; and a     *)
(* second cleanup at the same instant has nothing to delete.               *)
C35_Later == now..(MaxClock + 1)

C35_CleanupUnobservable ==
    [][CleanRateLimits =>
           /\ \A identifier \in DOMAIN rateLimitStore \ DOMAIN rateLimitStore' :
                  /\ now > rateLimitStore[identifier].resetTime
                  /\ now > rateLimitStore[identifier].blockUntil
           /\ \A identifier \in DOMAIN rateLimitStore' :
                  /\ rateLimitStore'[identifier] = rateLimitStore[identifier]
                  /\ ~(/\ now > rateLimitStore'[identifier].resetTime
                       /\ now > rateLimitStore'[identifier].blockUntil)
           /\ \A identifier \in Identifiers, at \in C35_Later :
                  LET kept    == checkRateLimit(rateLimitStore, identifier,
                                                LimitConfig(identifier), at)
                      cleaned == checkRateLimit(rateLimitStore', identifier,
                                                LimitConfig(identifier), at)
                  IN  /\ cleaned.result = kept.result
                      /\ cleaned.store[identifier] = kept.store[identifier]]_vars

(* The cleanup has deleted the entry of an identifier that had been        *)
(* blocked, and kept the entry of the other                                *)
C35_Witness ==
    /\ \E identifier \in DOMAIN limited :
           /\ identifier \notin DOMAIN rateLimitStore
           /\ \E i \in 1..Len(limited[identifier]) : ~limited[identifier][i].allowed
    /\ rateLimitStore # << >>

-----------------------------------------------------------------------------
(* C36: when the collaborator answers every call and no logTrade call is   *)
(* pending, the encrypted handle of an agent is the initial ciphertext     *)
(* with the P&L of every logged trade folded in exactly once.              *)
C36_EveryFoldKept ==
    Idle =>
        \A a \in DOMAIN encryptedMetricsMap :
            /\ encryptedMetricsMap[a].encrypted_data.folds = Size(submitted[a])
            /\ encryptedMetricsMap[a].encrypted_data.plain
                   = Total(submitted[a], LAMBDA t : t.pnl)

-----------------------------------------------------------------------------
(* C37: what a logTrade call returns, and the total_trades and win_rate of *)
(* the POST /trades response, are the aggregates as they were right after  *)
(* the call's own trade was applied, whatever other calls did meanwhile.   *)
C37_Position(trade) == CHOOSE k \in 1..Len(TradeOrder) : TradeOrder[k] = trade

(* The aggregates right after the k-th trade of the order was applied *)
C37_AfterOwn(trade) ==
    ApplyAll(initialMetrics, SubSeq(TradeOrder, 1, C37_Position(trade)))

C37_ReturnsOwnAggregates ==
    [][(/\ response' # response
        /\ response'.op \in {"logTrade", "POST /trades"}
        /\ response'.status \in {"ok", 200})
           => IF response'.via = "service"
              THEN response'.metrics = C37_AfterOwn(response'.trade)
              ELSE /\ response'.total_trades = C37_AfterOwn(response'.trade).total_trades
                   /\ response'.win_rate =
                          MathRound(C37_AfterOwn(response'.trade).winning_trades * 100 * 100,
                                    C37_AfterOwn(response'.trade).total_trades)]_vars

-----------------------------------------------------------------------------
(* C38: the badges of a stored VerifiedReputation are those of the metrics *)
(* the score was computed from, the metrics the call handed to the scoring *)
(* capability, also when a trade is logged while the call awaits it.       *)
C38_BadgesOfScoredMetrics ==
    [][\A rec \in DOMAIN calls, answer \in FrameAnswers :
           ComputeVerifiedReputationScored(rec, answer)
               => verifiedReputations'[rec.agent].badges = calculateBadges(rec.metrics)]_vars

-----------------------------------------------------------------------------
(* C39: with the database answering every write, once no logTrade call is  *)
(* in flight the durable metrics row of every agent is the row of its      *)
(* in-memory aggregates, and there are as many durable trade rows as       *)
(* logTrade calls whose trade write succeeded.                             *)
C39_DurableRowIsMemory ==
    (useDatabase /\ Idle)
        => /\ \A a \in DOMAIN rawMetricsStore :
                  Has(dbMetrics, a) => dbMetrics[a] = MetricsRow(rawMetricsStore[a])
           /\ Size(dbTrades) = TradesLogged

-----------------------------------------------------------------------------
(* C40: at every instant verifyProof and computeVerifiedReputation agree   *)
(* on the expiry of a stored proof: a proof that verifyProof does not      *)
(* reject as expired is among the proofs counted toward the score, and a   *)
(* proof left out of the count is one verifyProof rejects as expired.      *)
C40_VerifyAndScoreAgreeOnExpiry ==
    [][\A id \in DOMAIN proofsStore :
           VerifyProof(id)
               => (calls' # calls <=> id \in agentProofs(proofsStore[id].agent_id))]_vars

=============================================================================
